---- MODULE Spec2Model ----
(***************************************************************************)
(* Session / presence / routing layer of the chat server.                  *)
(*                                                                         *)
(* The in-memory maps of index.js (userSockets, connectedSockets,          *)
(* activeChats), the Socket.IO room subscriptions, the Room / User /       *)
(* Message collections, and the socket handlers of socketHandlers.js.      *)
(* A handler is an async function: every stretch of code between two       *)
(* awaits is one action, and a handler that is suspended on an await is a  *)
(* record in the set tasks.                                                *)
(***************************************************************************)
EXTENDS Integers, Sequences, FiniteSets, TLC

\* ------------------------------------------------------------------ bounds

\* Handlers that may be suspended on an await at the same time.
MaxTasks == 2
\* Messages accepted by the router in one behaviour.
MaxMsgs == 2
\* Messages accepted in one behaviour of the direct-routing specification.
MaxDmMsgs == 1
\* Messages in the store when the server starts.
MaxStored == 53

\* --------------------------------------------------------------- universe

NULL == "null"

Users == {"u1", "u2", "u3"}
\* An identity id is the 24 hex digits of an ObjectId, which user.id writes in
\* lower case. UpperId is the id of u1 written in upper case: another string,
\* the same ObjectId.
UpperId == "U1"
\* The order String.prototype.sort gives the id strings.
UserOrder == <<"U1", "u1", "u2", "u3">>

\* Transport sessions; a socket id is used for one connection only.
Sockets == {"s1", "s2", "s3"}

\* socket.user.id: the identity the handshake attached to the socket.
Owner(s) == IF s \in {"s1", "s2"} THEN "u1" ELSE "u2"

DEFAULT_ROOM == "general"
\* Public names a client may ask for: the default room, a well-formed new
\* name, and a name the format check refuses (upper case, two characters).
RoomNames == {"general", "lobby", "No"}
\* ObjectId strings the persistence layer hands out, in order.
ObjectIds == <<"o1", "o2", "o3", "o4", "o5">>
\* Ids a client may send: stored ids, a well-formed id of no document, and a
\* string that is no ObjectId.
GhostId == "o9"
BadId == "not-an-id"
ChatTypes == {"room", "direct", "dm"}
Statuses == {"online", "away", "dnd", "offline"}

\* ------------------------------------------------------------------ state

VARIABLES
    sockState,        \* socket -> "new" | "live" | "closed"
    snap,             \* socket -> socket.user.status
    userSockets,      \* Map userId -> Set socketId
    connectedSockets, \* Map socketId -> {userId, currentChatId, currentChatType}
    activeChats,      \* Map chatId -> {name, type, dbId, members}
    subs,             \* socket -> Socket.IO rooms it has joined
    dbRooms,          \* Room collection
    dbStatus,         \* User collection: status
    dbMessages,       \* Message collection, in creation order
    accepted,         \* number of messages that passed validation
    recv,             \* socket -> message ids delivered, in delivery order
    tasks,            \* handlers suspended on an await
    emits,            \* events delivered to sockets by the last step
    wrote,            \* status writes made by the last step
    last              \* the request or the suspended handler the last step ran

vars == <<sockState, snap, userSockets, connectedSockets, activeChats, subs,
          dbRooms, dbStatus, dbMessages, accepted, recv, tasks, emits, wrote, last>>

\* ---------------------------------------------------------------- helpers

Put(f, k, v) == [x \in (DOMAIN f) \cup {k} |-> IF x = k THEN v ELSE f[x]]
Del(f, k) == [x \in (DOMAIN f) \ {k} |-> f[x]]
EmptyMap == [x \in {} |-> NULL]

RankOf(u) == CHOOSE i \in 1..Len(UserOrder) : UserOrder[i] = u

\* The in-memory state as one value, so that a handler's helper calls compose.
Mem == [us |-> userSockets, cs |-> connectedSockets, ac |-> activeChats, sb |-> subs]

SetMem(m) ==
    /\ userSockets' = m.us
    /\ connectedSockets' = m.cs
    /\ activeChats' = m.ac
    /\ subs' = m.sb

\* io.to(room).emit: the sockets subscribed to the room.
InRoom(m, chatId) == {s \in Sockets : chatId \in m.sb[s]}

\* userSockets.get(userId), with the "targetSockets && size > 0" test folded in.
SocketsOf(m, u) == IF u \in DOMAIN m.us THEN m.us[u] ELSE {}

\* ----------------------------------------------------- per-socket helpers

\* Room-name check of 'join chat': 3 to 20 characters of [a-z0-9-_].
LowerCaseNames == {"general", "lobby"}
WellFormedName(n) == Len(n) >= 3 /\ Len(n) <= 20 /\ n \in LowerCaseNames

\* mongoose.Types.ObjectId.isValid: room ids and identity ids are ObjectIds.
IsValidObjectId(x) ==
    x \in {ObjectIds[i] : i \in 1..Len(ObjectIds)} \cup {GhostId, UpperId} \cup Users

\* The cast of an id string to an ObjectId that mongoose applies to the
\* arguments of a query and to the fields of a document: hex digits denote the
\* same ObjectId in either case.
toObjectId(x) == IF x = UpperId THEN "u1" ELSE x

\* What a socket is delivered: nothing reaches a transport that is closed.
Deliver(socks, ev) == {[to |-> s] @@ ev : s \in {x \in socks : sockState[x] = "live"}}

\* The error sent to every connection of the requester's identity.
sendErrorToUser(s, message) ==
    Deliver({x \in Sockets : Owner(x) = Owner(s)}, [ev |-> "error message", msg |-> message])

\* sendError: socket.emit('error message', message).
sendError(s, message) == Deliver({s}, [ev |-> "error message", msg |-> message])

\* leaveCurrentChat without its socket.leave(chatId).
leaveKeepsSubscription(m, s) ==
    IF s \notin DOMAIN m.cs \/ m.cs[s].currentChatId = NULL
          \/ m.cs[s].currentChatType = NULL
    THEN m
    ELSE LET chatId == m.cs[s].currentChatId
             chats == IF chatId \in DOMAIN m.ac
                      THEN [m.ac EXCEPT ![chatId].members = @ \ {Owner(s)}]
                      ELSE m.ac
             cleared == [m.cs EXCEPT ![s].currentChatId = NULL,
                                     ![s].currentChatType = NULL]
         IN  [us |-> m.us, cs |-> cleared, ac |-> chats, sb |-> m.sb]

\* The removal of a member with the clean-up of a public room left empty.
detachAndCleanUp(ac, chatId, userId) ==
    IF ac[chatId].type = "room" /\ ac[chatId].members \ {userId} = {}
    THEN Del(ac, chatId)
    ELSE [ac EXCEPT ![chatId].members = @ \ {userId}]

\* leaveCurrentChat: chatInfo.members.delete(userId); the record stays.
detach(ac, chatId, userId) == [ac EXCEPT ![chatId].members = @ \ {userId}]

\* leaveCurrentChat: the memory after it has run for socket s.
leaveCurrentChat(m, s) ==
    IF s \notin DOMAIN m.cs \/ m.cs[s].currentChatId = NULL
          \/ m.cs[s].currentChatType = NULL
    THEN m
    ELSE LET chatId == m.cs[s].currentChatId
             left == [m.sb EXCEPT ![s] = @ \ {chatId}]
             chats == IF chatId \in DOMAIN m.ac
                      THEN detach(m.ac, chatId, Owner(s))
                      ELSE m.ac
             cleared == [m.cs EXCEPT ![s].currentChatId = NULL,
                                     ![s].currentChatType = NULL]
         IN  [us |-> m.us, cs |-> cleared, ac |-> chats, sb |-> left]

\* leaveCurrentChat without its 'stop typing'.
leaveSilently(m, s) == {}

\* leaveCurrentChat: io.to(chatId).emit('stop typing'), after socket.leave.
leaveEmits(m, s) ==
    IF s \notin DOMAIN m.cs \/ m.cs[s].currentChatId = NULL
          \/ m.cs[s].currentChatType = NULL
    THEN {}
    ELSE LET chatId == m.cs[s].currentChatId
         IN  Deliver(InRoom(leaveCurrentChat(m, s), chatId),
                     [ev |-> "stop typing", user |-> Owner(s),
                      chat |-> [type |-> m.cs[s].currentChatType, id |-> chatId]])

\* joinSocketToChat: the memory after it has run for socket s.
joinSocketToChat(m, s, chatId, chatType, chatName, chatDbId) ==
    IF s \notin DOMAIN m.cs
    THEN m
    ELSE LET located == [m.cs EXCEPT ![s].currentChatId = chatId,
                                     ![s].currentChatType = chatType]
             joined == [m.sb EXCEPT ![s] = @ \cup {chatId}]
             chats == IF chatId \in DOMAIN m.ac
                      THEN m.ac
                      ELSE Put(m.ac, chatId, [name |-> chatName, type |-> chatType,
                                              dbId |-> chatDbId, members |-> {}])
             added == [chats EXCEPT ![chatId].members = @ \cup {Owner(s)}]
         IN  [us |-> m.us, cs |-> located, ac |-> added, sb |-> joined]

\* broadcastUserListUpdate(roomId) up to its await: for a public room with
\* members it copies the member set and awaits User.find over the copy. The
\* function is a closure of the handlers of socket s.
broadcastUserListUpdate(m, s, roomId) ==
    IF roomId \in DOMAIN m.ac /\ m.ac[roomId].type = "room" /\ m.ac[roomId].members # {}
    THEN {[kind |-> "ulist", sock |-> s, pc |-> "find", room |-> roomId,
           users |-> m.ac[roomId].members]}
    ELSE {}

\* leaveCurrentChat: broadcastUserListUpdate(chatId) when a public room keeps
\* members.
leaveLists(m, s) ==
    IF s \notin DOMAIN m.cs \/ m.cs[s].currentChatId = NULL
          \/ m.cs[s].currentChatType # "room"
    THEN {}
    ELSE broadcastUserListUpdate(leaveCurrentChat(m, s), s, m.cs[s].currentChatId)

\* joinSocketToChat: broadcastUserListUpdate(chatId) for a public room; m is
\* the memory before the call.
joinLists(m, s, chatId, chatType, chatName, chatDbId) ==
    IF s \notin DOMAIN m.cs \/ chatType # "room"
    THEN {}
    ELSE broadcastUserListUpdate(joinSocketToChat(m, s, chatId, chatType, chatName, chatDbId),
                                 s, chatId)

\* The presence of the joining identity sent with io.to(chatId): the joining
\* socket gets it too.
joinEmitsToRoom(m, s, chatId, chatType) ==
    IF s \notin DOMAIN m.cs \/ chatType # "room"
    THEN {}
    ELSE Deliver(InRoom(m, chatId),
                 [ev |-> "presence update", user |-> Owner(s),
                  status |-> snap[s], via |-> "join", copies |-> 1])

\* joinSocketToChat: socket.to(chatId).emit('presence update') for a public room.
joinEmits(m, s, chatId, chatType) ==
    IF s \notin DOMAIN m.cs \/ chatType # "room"
    THEN {}
    ELSE Deliver(InRoom(m, chatId) \ {s},
                 [ev |-> "presence update", user |-> Owner(s),
                  status |-> snap[s], via |-> "join", copies |-> 1])

\* broadcastPresenceUpdate: the identities sharing an active chat with userId.
usersToNotify(m, userId) ==
    UNION {m.ac[c].members \ {userId} :
             c \in {x \in DOMAIN m.ac : userId \in m.ac[x].members}}

\* An array in place of the Set: an identity is held once for every chat it
\* shares with userId.
timesAddedPerChat(m, userId, v) ==
    Cardinality({c \in DOMAIN m.ac : userId \in m.ac[c].members /\ v \in m.ac[c].members})

\* broadcastPresenceUpdate: usersToNotify is a Set, which holds an identity
\* once however many chats added it.
timesAdded(m, userId, v) == Cardinality({v} \cap usersToNotify(m, userId))

\* broadcastPresenceUpdate: one 'presence update' per socket of each of them;
\* copies counts the emits to one socket.
broadcastPresenceUpdate(m, userId, newStatus) ==
    UNION {Deliver(SocketsOf(m, v),
                   [ev |-> "presence update", user |-> userId,
                    status |-> newStatus, via |-> "broadcast",
                    copies |-> timesAdded(m, userId, v)]) :
             v \in usersToNotify(m, userId)}

\* ------------------------------------------------------------ persistence

Range(seq) == {seq[i] : i \in 1..Len(seq)}

\* The _id the collection gives the next document it stores.
NewObjectId == ObjectIds[Cardinality(dbRooms) + 1]

\* The lookup with the in-memory type 'room' in place of the stored 'public'.
FindPublicWrongType(rooms, name) == {r \in rooms : r.type = "room" /\ r.name = name}

\* Room.findOne({type: 'public', name}).
FindPublic(rooms, name) == {r \in rooms : r.type = "public" /\ r.name = name}

\* Room.findById(id).
FindById(rooms, id) == {r \in rooms : r._id = id}

\* Room.findOne({type: 'direct', participants: {$all: participants, $size: 2}}).
FindDirect(rooms, participants) ==
    {r \in rooms : /\ r.type = "direct"
                   /\ Range(participants) \subseteq Range(r.participants)
                   /\ Len(r.participants) = 2}

\* The Room collection without the unique index over {type, participants}.
DuplicateKeyNameOnly(rooms, doc) ==
    doc.name # NULL /\ \E r \in rooms : r.name = doc.name

\* The unique indexes of the Room collection. name is unique among the
\* documents that have one; {type, participants} is a unique multikey index
\* over the direct documents, with one key per element of participants, so a
\* direct document is refused when a stored one shares an element with it.
DuplicateKey(rooms, doc) ==
    \/ /\ doc.name # NULL
       /\ \E r \in rooms : r.name = doc.name
    \/ /\ doc.type = "direct"
       /\ \E r \in rooms : /\ r.type = "direct"
                           /\ Range(r.participants) \cap Range(doc.participants) # {}

\* The pair in the order of the call.
PairAsGiven(a, b) == <<a, b>>

\* [user1_id, user2_id].sort() of findOrCreateDirectMessage.
SortPair(a, b) == IF RankOf(a) <= RankOf(b) THEN <<a, b>> ELSE <<b, a>>

\* The participants array as the query and the document hold it.
CastPair(participants) == <<toObjectId(participants[1]), toObjectId(participants[2])>>

\* validStatuses with 'offline' in it.
NormalizeStatusKeepsOffline(status) ==
    IF status \in {"online", "away", "dnd", "offline"} THEN status ELSE "online"

\* 'set status': a status outside validStatuses is stored as 'online'.
NormalizeStatus(status) ==
    IF status \in {"online", "away", "dnd"} THEN status ELSE "online"

\* ------------------------------------------------------------------- Init

DefaultRoomDoc ==
    [_id |-> ObjectIds[1], type |-> "public", name |-> DEFAULT_ROOM,
     owner |-> NULL, participants |-> <<>>, lastActivity |-> 0]

Init ==
    /\ sockState = [s \in Sockets |-> "new"]
    /\ snap = [s \in Sockets |-> "offline"]
    /\ userSockets = EmptyMap
    /\ connectedSockets = EmptyMap
    /\ activeChats = Put(EmptyMap, DEFAULT_ROOM,
                         [name |-> "General", type |-> "room",
                          dbId |-> DefaultRoomDoc._id, members |-> {}])
    /\ subs = [s \in Sockets |-> {}]
    /\ dbRooms = {DefaultRoomDoc}
    /\ dbStatus = [u \in Users |-> "offline"]
    /\ dbMessages = <<>>
    /\ accepted = 0
    /\ recv = [s \in Sockets |-> <<>>]
    /\ tasks = {}
    /\ emits = {}
    /\ wrote = {}
    /\ last = [op |-> "start"]

HasRoom == Cardinality(tasks) < MaxTasks

\* The step ran the continuation of suspended handler t.
Resume(t) == [op |-> "resume", task |-> t]

DbSame == UNCHANGED <<dbRooms, dbStatus, dbMessages>>
MsgSame == UNCHANGED <<accepted, recv>>

\* ------------------------------------------------- connect and disconnect

\* The connection handler with the online write started for every connection.
ConnectAlwaysWrites(s) ==
    /\ sockState[s] = "new"
    /\ HasRoom
    /\ LET u == Owner(s)
           socks == SocketsOf(Mem, u) \cup {s}
       IN  /\ sockState' = [sockState EXCEPT ![s] = "live"]
           /\ snap' = [snap EXCEPT ![s] = dbStatus[u]]
           /\ userSockets' = Put(userSockets, u, socks)
           /\ connectedSockets' =
                  Put(connectedSockets, s,
                      [userId |-> u, currentChatId |-> NULL, currentChatType |-> NULL])
           /\ tasks' = tasks \cup {[kind |-> "connect", sock |-> s, pc |-> "update"]}
    /\ emits' = {}
    /\ wrote' = {}
    /\ last' = [op |-> "connection", sock |-> s]
    /\ UNCHANGED <<activeChats, subs>>
    /\ DbSame /\ MsgSame

\* io.on('connection') up to the first await of handleUserConnect.
Connect(s) ==
    /\ sockState[s] = "new"
    /\ HasRoom
    /\ LET u == Owner(s)
           socks == SocketsOf(Mem, u) \cup {s}
           isFirstConnection == Cardinality(socks) = 1
       IN  /\ sockState' = [sockState EXCEPT ![s] = "live"]
           /\ snap' = [snap EXCEPT ![s] = dbStatus[u]]
           /\ userSockets' = Put(userSockets, u, socks)
           /\ connectedSockets' =
                  Put(connectedSockets, s,
                      [userId |-> u, currentChatId |-> NULL, currentChatType |-> NULL])
           /\ tasks' = IF isFirstConnection
                       THEN tasks \cup {[kind |-> "connect", sock |-> s, pc |-> "update"]}
                       ELSE tasks
    /\ emits' = {}
    /\ wrote' = {}
    /\ last' = [op |-> "connection", sock |-> s]
    /\ UNCHANGED <<activeChats, subs>>
    /\ DbSame /\ MsgSame

\* handleUserConnect after User.findByIdAndUpdate(status: 'online').
ConnectUpdated(t) ==
    /\ t \in tasks /\ t.kind = "connect"
    /\ LET u == Owner(t.sock)
       IN  /\ dbStatus' = [dbStatus EXCEPT ![u] = "online"]
           /\ wrote' = {[user |-> u, status |-> "online"]}
           /\ emits' = broadcastPresenceUpdate(Mem, u, "online")
    /\ tasks' = tasks \ {t}
    /\ last' = Resume(t)
    /\ UNCHANGED <<sockState, snap, userSockets, connectedSockets, activeChats, subs,
                   dbRooms, dbMessages>>
    /\ MsgSame

\* A suspended forEach callback of 'chat message' holds the Set that
\* userSockets gave it for its participant. When the participant's last socket
\* is deleted from that Set the map entry is deleted too, and a later
\* connection of the participant gets a new Set: the one held stays empty.
Emptied(ts, u) ==
    {IF t.kind = "dmlist" /\ t.participant = u THEN [t EXCEPT !.emptied = TRUE] ELSE t :
       t \in ts}

\* The handler with its clean-up moved behind the offline write: the step up to
\* the await closes the transport only.
DisconnectWriteFirst(s) ==
    /\ sockState[s] = "live"
    /\ HasRoom
    /\ sockState' = [sockState EXCEPT ![s] = "closed"]
    /\ subs' = [subs EXCEPT ![s] = {}]
    /\ tasks' = IF SocketsOf(Mem, Owner(s)) = {s}
                THEN tasks \cup {[kind |-> "disconnect", sock |-> s, pc |-> "update",
                                  shared |-> usersToNotify(Mem, Owner(s))]}
                ELSE tasks
    /\ emits' = {}
    /\ wrote' = {}
    /\ last' = [op |-> "disconnect", sock |-> s]
    /\ UNCHANGED <<snap, userSockets, connectedSockets, activeChats>>
    /\ DbSame /\ MsgSame

\* The removal of a socket that keeps the identity's emptied set.
dropSocketKeepsSet(us, userId, s) ==
    IF userId \notin DOMAIN us THEN us ELSE [us EXCEPT ![userId] = @ \ {s}]

\* 'disconnect': userSocketSet.delete(socketId), and userSockets.delete(userId)
\* when the set is left empty.
dropSocket(us, userId, s) ==
    IF userId \notin DOMAIN us THEN us
    ELSE IF us[userId] \ {s} = {} THEN Del(us, userId)
    ELSE [us EXCEPT ![userId] = @ \ {s}]

\* socket.on('disconnect') up to the await of the offline write. Socket.IO has
\* taken the socket out of its rooms before the handler runs.
Disconnect(s) ==
    /\ sockState[s] = "live"
    /\ HasRoom
    /\ LET u == Owner(s)
           m0 == [Mem EXCEPT !.sb[s] = {}]
           m1 == leaveCurrentChat(m0, s)
           known == u \in DOMAIN m1.us
           rest == IF known THEN m1.us[u] \ {s} ELSE {}
           wasLastConnection == known /\ rest = {}
           us2 == dropSocket(m1.us, u, s)
       IN  /\ SetMem([m1 EXCEPT !.us = us2, !.cs = Del(m1.cs, s)])
           /\ emits' = leaveEmits(m0, s)
           /\ tasks' = leaveLists(m0, s) \cup
                       (IF wasLastConnection
                        THEN Emptied(tasks, u)
                                \cup {[kind |-> "disconnect", sock |-> s, pc |-> "update",
                                       shared |-> usersToNotify(Mem, u)]}
                        ELSE tasks)
           /\ last' = [op |-> "disconnect", sock |-> s]
    /\ sockState' = [sockState EXCEPT ![s] = "closed"]
    /\ wrote' = {}
    /\ UNCHANGED snap
    /\ DbSame /\ MsgSame

\* 'disconnect' after User.findByIdAndUpdate(status: 'offline').
DisconnectUpdated(t) ==
    /\ t \in tasks /\ t.kind = "disconnect"
    /\ LET u == Owner(t.sock)
       IN  /\ dbStatus' = [dbStatus EXCEPT ![u] = "offline"]
           /\ wrote' = {[user |-> u, status |-> "offline"]}
           /\ emits' = broadcastPresenceUpdate(Mem, u, "offline")
    /\ tasks' = tasks \ {t}
    /\ last' = Resume(t)
    /\ UNCHANGED <<sockState, snap, userSockets, connectedSockets, activeChats, subs,
                   dbRooms, dbMessages>>
    /\ MsgSame

\* ------------------------------------------------------------- set status

StatusInputs == {"", "online", "away", "offline"}

\* socket.on('set status') up to the await of the status write.
SetStatus(s, status) ==
    /\ sockState[s] = "live"
    /\ HasRoom
    /\ IF status = ""
       THEN /\ emits' = sendError(s, "Invalid status update data.")
            /\ tasks' = tasks
       ELSE /\ emits' = {}
            /\ tasks' = tasks \cup {[kind |-> "status", sock |-> s, pc |-> "update",
                                     status |-> NormalizeStatus(status)]}
    /\ wrote' = {}
    /\ last' = [op |-> "set status", sock |-> s, status |-> status]
    /\ UNCHANGED <<sockState, snap, userSockets, connectedSockets, activeChats, subs>>
    /\ DbSame /\ MsgSame

\* The continuation of 'set status' without the refresh of socket.user.
StatusUpdatedKeepsSnapshot(t) ==
    /\ t \in tasks /\ t.kind = "status"
    /\ LET u == Owner(t.sock)
       IN  /\ dbStatus' = [dbStatus EXCEPT ![u] = t.status]
           /\ wrote' = {[user |-> u, status |-> t.status]}
           /\ emits' = broadcastPresenceUpdate(Mem, u, t.status)
    /\ tasks' = tasks \ {t}
    /\ last' = Resume(t)
    /\ UNCHANGED <<sockState, snap, userSockets, connectedSockets, activeChats, subs,
                   dbRooms, dbMessages>>
    /\ MsgSame

\* 'set status' after User.findByIdAndUpdate(status: newStatus).
StatusUpdated(t) ==
    /\ t \in tasks /\ t.kind = "status"
    /\ LET u == Owner(t.sock)
       IN  /\ dbStatus' = [dbStatus EXCEPT ![u] = t.status]
           /\ wrote' = {[user |-> u, status |-> t.status]}
           /\ snap' = [snap EXCEPT ![t.sock] = t.status]
           /\ emits' = broadcastPresenceUpdate(Mem, u, t.status)
    /\ tasks' = tasks \ {t}
    /\ last' = Resume(t)
    /\ UNCHANGED <<sockState, userSockets, connectedSockets, activeChats, subs,
                   dbRooms, dbMessages>>
    /\ MsgSame

\* -------------------------------------------------------------- join chat

\* displayName of a created public room: the name with its first letter raised.
DisplayName(n) == IF n = "general" THEN "General"
                  ELSE IF n = "lobby" THEN "Lobby" ELSE n

\* The attachment socket s records, as {type, id}.
AttachmentOf(cs, s) ==
    IF s \in DOMAIN cs
    THEN [type |-> cs[s].currentChatType, id |-> cs[s].currentChatId]
    ELSE [type |-> NULL, id |-> NULL]

\* membersOf(chatId): the member set activeChats holds for a chat.
MembersOf(ac, chatId) == IF chatId \in DOMAIN ac THEN ac[chatId].members ELSE {}

\* What a request found when it arrived: the socket's attachment and the
\* member set of that chat.
Before(s) ==
    [type |-> AttachmentOf(connectedSockets, s).type,
     id |-> AttachmentOf(connectedSockets, s).id,
     members |-> MembersOf(activeChats, AttachmentOf(connectedSockets, s).id)]

\* Requests a client may send: {type, id} over the names and ids above, and a
\* payload with a field missing.
JoinInputs ==
    {[type |-> "room", id |-> n] : n \in RoomNames}
        \cup {[type |-> "direct", id |-> i] :
                 i \in {r._id : r \in dbRooms} \cup {GhostId, BadId}}
        \cup {[type |-> "dm", id |-> r._id] : r \in dbRooms}
        \cup {[type |-> "", id |-> ""]}

\* The suspended 'join chat' handler; was is what the request found when it
\* arrived.
JoinTask(s, data, pc, was) ==
    [kind |-> "join", sock |-> s, type |-> data.type, id |-> data.id, pc |-> pc,
     was |-> was, isNew |-> FALSE, chatId |-> NULL]

\* socket.on('join chat') up to the first await.
JoinChat(s, data) ==
    /\ sockState[s] = "live"
    /\ HasRoom
    /\ data \in JoinInputs
    /\ LET was == Before(s)
           m1 == leaveCurrentChat(Mem, s)
           left == leaveEmits(Mem, s)
           lists == leaveLists(Mem, s)
       IN  /\ last' = [op |-> "join chat", sock |-> s, data |-> data, was |-> was]
           /\ IF data.type = "" \/ data.id = ""
              THEN /\ emits' = sendError(s, "Invalid join request data.")
                   /\ tasks' = tasks
                   /\ UNCHANGED <<userSockets, connectedSockets, activeChats, subs>>
              ELSE /\ SetMem(m1)
                   /\ IF data.type = "room"
                      THEN /\ emits' = left
                           /\ tasks' = tasks \cup lists
                                          \cup {JoinTask(s, data, "findOne", was)}
                      ELSE IF data.type = "direct"
                      THEN IF ~IsValidObjectId(data.id)
                           THEN /\ emits' = left \cup
                                       sendError(s, "Invalid DM identifier format.")
                                /\ tasks' = tasks \cup lists
                           ELSE /\ emits' = left
                                /\ tasks' = tasks \cup lists
                                               \cup {JoinTask(s, data, "findById", was)}
                      ELSE /\ emits' = left \cup
                                  sendError(s, "Invalid chat type specified.")
                           /\ tasks' = tasks \cup lists
    /\ wrote' = {}
    /\ UNCHANGED <<sockState, snap>>
    /\ DbSame /\ MsgSame

\* The handler goes on to joinSocketToChat and awaits the message history.
JoinAttach(t, chatId, chatName, chatDbId, isNew) ==
    /\ SetMem(joinSocketToChat(Mem, t.sock, chatId, t.type, chatName, chatDbId))
    /\ emits' = joinEmits(joinSocketToChat(Mem, t.sock, chatId, t.type, chatName, chatDbId),
                          t.sock, chatId, t.type)
    /\ tasks' = (tasks \ {t})
                   \cup joinLists(Mem, t.sock, chatId, t.type, chatName, chatDbId)
                   \cup {[t EXCEPT !.pc = "history", !.isNew = isNew, !.chatId = chatId]}

\* The handler returns through sendError.
JoinReject(t, message) ==
    /\ emits' = sendError(t.sock, message)
    /\ tasks' = tasks \ {t}
    /\ UNCHANGED <<userSockets, connectedSockets, activeChats, subs>>

\* 'join chat' of a room after Room.findOne({type: 'public', name}).
JoinFoundOne(t) ==
    /\ t \in tasks /\ t.kind = "join" /\ t.pc = "findOne"
    /\ LET docs == FindPublic(dbRooms, t.id)
       IN  IF docs # {}
           THEN LET chatDoc == CHOOSE r \in docs : TRUE
                IN  JoinAttach(t, chatDoc.name, DisplayName(chatDoc.name), chatDoc._id, FALSE)
           ELSE IF ~WellFormedName(t.id)
           THEN JoinReject(t, "Invalid room name format.")
           ELSE /\ tasks' = (tasks \ {t}) \cup {[t EXCEPT !.pc = "save"]}
                /\ emits' = {}
                /\ UNCHANGED <<userSockets, connectedSockets, activeChats, subs>>
    /\ wrote' = {}
    /\ last' = Resume(t)
    /\ UNCHANGED <<sockState, snap>>
    /\ DbSame /\ MsgSame

\* 'join chat' of a room after chatDoc.save() of the new public room.
JoinSaved(t) ==
    /\ t \in tasks /\ t.kind = "join" /\ t.pc = "save"
    /\ LET chatDoc == [_id |-> NewObjectId, type |-> "public", name |-> t.id,
                       owner |-> Owner(t.sock), participants |-> <<>>,
                       lastActivity |-> Len(dbMessages)]
       IN  IF DuplicateKey(dbRooms, chatDoc)
           THEN /\ JoinReject(t, "Failed to join chat")
                /\ dbRooms' = dbRooms
           ELSE /\ dbRooms' = dbRooms \cup {chatDoc}
                /\ JoinAttach(t, chatDoc.name, DisplayName(chatDoc.name), chatDoc._id, TRUE)
    /\ wrote' = {}
    /\ last' = Resume(t)
    /\ UNCHANGED <<sockState, snap, dbStatus, dbMessages>>
    /\ MsgSame

\* 'join chat' of a direct chat after the first Room.findById(requestedId).
JoinFoundById(t) ==
    /\ t \in tasks /\ t.kind = "join" /\ t.pc = "findById"
    /\ LET docs == FindById(dbRooms, t.id)
       IN  IF docs = {} \/ \A r \in docs : r.type # "direct"
           THEN /\ emits' = sendError(t.sock, "Direct message chat not found.")
                /\ tasks' = tasks \ {t}
           ELSE /\ emits' = {}
                /\ tasks' = (tasks \ {t}) \cup {[t EXCEPT !.pc = "participants"]}
    /\ wrote' = {}
    /\ last' = Resume(t)
    /\ UNCHANGED <<sockState, snap, userSockets, connectedSockets, activeChats, subs>>
    /\ DbSame /\ MsgSame

\* The participant check that lets every requester through.
includesAnyone(participantIds, userId) == TRUE

\* participantIds.includes(userId).
includes(participantIds, userId) == userId \in participantIds

\* 'join chat' of a direct chat after the second Room.findById: the
\* participant check, then joinSocketToChat.
JoinParticipants(t) ==
    /\ t \in tasks /\ t.kind = "join" /\ t.pc = "participants"
    /\ LET chatDoc == CHOOSE r \in FindById(dbRooms, t.id) : TRUE
           participantIds == Range(chatDoc.participants)
           userId == Owner(t.sock)
       IN  IF ~includes(participantIds, userId)
           THEN JoinReject(t, "Not authorized for this direct message.")
           ELSE LET other == CHOOSE p \in participantIds : p # userId
                IN  JoinAttach(t, chatDoc._id, other, chatDoc._id, FALSE)
    /\ wrote' = {}
    /\ last' = Resume(t)
    /\ UNCHANGED <<sockState, snap>>
    /\ DbSame /\ MsgSame

MESSAGE_HISTORY_LIMIT == 50

\* Message.find(...).sort({createdAt: -1}): the documents found, newest first.
RECURSIVE NewestFirst(_)
NewestFirst(found) ==
    IF found = {} THEN <<>>
    ELSE LET newest == CHOOSE x \in found : \A y \in found : y.createdAt <= x.createdAt
         IN  <<newest>> \o NewestFirst(found \ {newest})

\* The entry of the history made of a stored message.
historyEntry(msg) == [sender |-> msg.sender, text |-> msg.text, timestamp |-> msg.createdAt]

\* getRecentMessages: Message.find({chat: chatDbId}).sort({createdAt: -1})
\* .limit(MESSAGE_HISTORY_LIMIT), then reverse() and map.
getRecentMessages(msgs, chatDbId) ==
    LET found == {msgs[i] : i \in {j \in DOMAIN msgs : msgs[j].chat = chatDbId}}
        sorted == NewestFirst(found)
        n == IF Len(sorted) < MESSAGE_HISTORY_LIMIT THEN Len(sorted) ELSE MESSAGE_HISTORY_LIMIT
    IN  [i \in 1..n |-> historyEntry(sorted[n + 1 - i])]

\* socket.emit('joined chat', ...).
joinedChat(s, chatType, chatId, users, recentMessages, isNew) ==
    Deliver({s}, [ev |-> "joined chat", chat |-> [type |-> chatType, id |-> chatId],
                  users |-> users, messages |-> recentMessages, isNew |-> isNew])

\* 'join chat' from the return of getRecentMessages on: a room with members
\* awaits User.find over the members it has now, anything else is answered at
\* once; errors are what getRecentMessages sent on its way.
afterHistory(t, recentMessages, errors) ==
    LET members == IF t.type = "room" /\ t.chatId \in DOMAIN activeChats
                   THEN activeChats[t.chatId].members ELSE {}
    IN  IF members # {}
        THEN /\ tasks' = (tasks \ {t}) \cup
                            {[kind |-> "join", sock |-> t.sock, type |-> t.type,
                              id |-> t.id, pc |-> "users", was |-> t.was,
                              isNew |-> t.isNew, chatId |-> t.chatId,
                              members |-> members, messages |-> recentMessages]}
             /\ emits' = errors
        ELSE /\ tasks' = tasks \ {t}
             /\ emits' = errors \cup
                            joinedChat(t.sock, t.type, t.chatId, {}, recentMessages, t.isNew)

\* 'join chat' after getRecentMessages has returned the history.
JoinHistory(t) ==
    /\ t \in tasks /\ t.kind = "join" /\ t.pc = "history"
    /\ afterHistory(t, getRecentMessages(dbMessages, activeChats[t.chatId].dbId), {})
    /\ wrote' = {}
    /\ last' = Resume(t)
    /\ UNCHANGED <<sockState, snap, userSockets, connectedSockets, activeChats, subs>>
    /\ DbSame /\ MsgSame

\* 'join chat' after getRecentMessages has caught a rejected Message.find: it
\* answers through sendError and returns [], and the handler goes on.
JoinHistoryFailed(t) ==
    /\ t \in tasks /\ t.kind = "join" /\ t.pc = "history"
    /\ afterHistory(t, <<>>, sendError(t.sock, "Failed to load message history."))
    /\ wrote' = {}
    /\ last' = [op |-> "failure", task |-> t]
    /\ UNCHANGED <<sockState, snap, userSockets, connectedSockets, activeChats, subs>>
    /\ DbSame /\ MsgSame

\* 'join chat' of a room after User.find over the members.
JoinUsers(t) ==
    /\ t \in tasks /\ t.kind = "join" /\ t.pc = "users"
    /\ tasks' = tasks \ {t}
    /\ emits' = joinedChat(t.sock, t.type, t.chatId, t.members, t.messages, t.isNew)
    /\ wrote' = {}
    /\ last' = Resume(t)
    /\ UNCHANGED <<sockState, snap, userSockets, connectedSockets, activeChats, subs>>
    /\ DbSame /\ MsgSame

\* broadcastUserListUpdate after User.find: io.to(roomId).emit('user list
\* update') with the members it copied before the await, to the sockets that
\* are in the Socket.IO room now.
UserListFetched(t) ==
    /\ t \in tasks /\ t.kind = "ulist"
    /\ tasks' = tasks \ {t}
    /\ emits' = Deliver(InRoom(Mem, t.room),
                        [ev |-> "user list update", room |-> t.room, users |-> t.users])
    /\ wrote' = {}
    /\ last' = Resume(t)
    /\ UNCHANGED <<sockState, snap, userSockets, connectedSockets, activeChats, subs>>
    /\ DbSame /\ MsgSame

\* ------------------------------------------------------------ initiate dm

\* Targets a client may name: the identities, a well-formed id of no identity,
\* a string that is no ObjectId, and nothing.
DmTargets == Users \cup {GhostId, BadId, ""}

\* The catch around dmRoom.save() without the test of error.code.
afterSaveErrorRethrow(code) == "throw"

\* findOrCreateDirectMessage, the catch around dmRoom.save(): a duplicate-key
\* error (code 11000) leads to the second findOne, any other error is rethrown.
DUPLICATE_KEY == 11000
afterSaveError(code) == IF code = DUPLICATE_KEY THEN "refind" ELSE "throw"

\* socket.on('initiate dm') up to the first await.
InitiateDm(s, targetUserId) ==
    /\ sockState[s] = "live"
    /\ HasRoom
    /\ targetUserId \in DmTargets \cup {UpperId}
    /\ LET was == Before(s)
       IN  /\ last' = [op |-> "initiate dm", sock |-> s, target |-> targetUserId,
                       was |-> was]
           /\ IF targetUserId = "" \/ targetUserId = Owner(s)
              THEN /\ emits' = sendError(s, "Invalid target user for DM.")
                   /\ tasks' = tasks
              ELSE IF ~IsValidObjectId(targetUserId)
              THEN /\ emits' = sendError(s, "Invalid target user ID format.")
                   /\ tasks' = tasks
              ELSE /\ emits' = {}
                   /\ tasks' = tasks \cup
                          {[kind |-> "dm", sock |-> s, target |-> targetUserId,
                            pc |-> "findUser", was |-> was, isNew |-> FALSE,
                            room |-> NULL]}
    /\ wrote' = {}
    /\ UNCHANGED <<sockState, snap, userSockets, connectedSockets, activeChats, subs>>
    /\ DbSame /\ MsgSame

\* The handler returns through the sendError of its catch or of a check.
DmReject(t, message) ==
    /\ emits' = sendError(t.sock, message)
    /\ tasks' = tasks \ {t}
    /\ UNCHANGED <<userSockets, connectedSockets, activeChats, subs>>

\* findOrCreateDirectMessage: user1_id === user2_id, a comparison of strings.
sameUser(user1_id, user2_id) == user1_id = user2_id

\* 'initiate dm' after User.findById(targetUserId), up to the first findOne of
\* findOrCreateDirectMessage.
DmFoundUser(t) ==
    /\ t \in tasks /\ t.kind = "dm" /\ t.pc = "findUser"
    /\ IF toObjectId(t.target) \notin Users
       THEN DmReject(t, "The user you tried to message does not exist.")
       ELSE IF sameUser(Owner(t.sock), t.target)
       THEN DmReject(t, "Failed to start DM")
       ELSE /\ emits' = {}
            /\ tasks' = (tasks \ {t}) \cup {[t EXCEPT !.pc = "findOne"]}
            /\ UNCHANGED <<userSockets, connectedSockets, activeChats, subs>>
    /\ wrote' = {}
    /\ last' = Resume(t)
    /\ UNCHANGED <<sockState, snap>>
    /\ DbSame /\ MsgSame

\* 'initiate dm' from the return of findOrCreateDirectMessage to the await of
\* the message history: both identities are put in the member set, the socket
\* leaves its chat and joins the direct one.
DmAttach(t, dmRoom, isNew) ==
    LET userId == Owner(t.sock)
        dmRoomId == dmRoom._id
        chats == IF dmRoomId \in DOMAIN activeChats
                 THEN [activeChats EXCEPT ![dmRoomId].members = @ \cup {userId, t.target}]
                 ELSE Put(activeChats, dmRoomId,
                          [name |-> t.target, type |-> "direct", dbId |-> dmRoom._id,
                           members |-> {userId, t.target}])
        m0 == [Mem EXCEPT !.ac = chats]
        m1 == leaveCurrentChat(m0, t.sock)
        m2 == joinSocketToChat(m1, t.sock, dmRoomId, "direct", t.target, dmRoom._id)
    IN  /\ SetMem(m2)
        /\ emits' = leaveEmits(m0, t.sock)
        /\ tasks' = (tasks \ {t}) \cup leaveLists(m0, t.sock) \cup
                       {[t EXCEPT !.pc = "history", !.isNew = isNew, !.room = dmRoomId]}

\* findOrCreateDirectMessage after the first findOne.
DmFoundOne(t) ==
    /\ t \in tasks /\ t.kind = "dm" /\ t.pc = "findOne"
    /\ LET docs == FindDirect(dbRooms, CastPair(SortPair(Owner(t.sock), t.target)))
       IN  IF docs # {}
           THEN DmAttach(t, CHOOSE r \in docs : TRUE, FALSE)
           ELSE /\ emits' = {}
                /\ tasks' = (tasks \ {t}) \cup {[t EXCEPT !.pc = "save"]}
                /\ UNCHANGED <<userSockets, connectedSockets, activeChats, subs>>
    /\ wrote' = {}
    /\ last' = Resume(t)
    /\ UNCHANGED <<sockState, snap>>
    /\ DbSame /\ MsgSame

\* findOrCreateDirectMessage after dmRoom.save().
DmSaved(t) ==
    /\ t \in tasks /\ t.kind = "dm" /\ t.pc = "save"
    /\ LET dmRoom == [_id |-> NewObjectId, type |-> "direct", name |-> NULL,
                      owner |-> NULL,
                      participants |-> CastPair(SortPair(Owner(t.sock), t.target)),
                      lastActivity |-> Len(dbMessages)]
       IN  IF DuplicateKey(dbRooms, dmRoom)
           THEN /\ dbRooms' = dbRooms
                /\ IF afterSaveError(DUPLICATE_KEY) = "refind"
                   THEN /\ emits' = {}
                        /\ tasks' = (tasks \ {t}) \cup {[t EXCEPT !.pc = "refind"]}
                        /\ UNCHANGED <<userSockets, connectedSockets, activeChats, subs>>
                   ELSE DmReject(t, "Failed to start DM")
           ELSE /\ dbRooms' = dbRooms \cup {dmRoom}
                /\ DmAttach(t, dmRoom, TRUE)
    /\ wrote' = {}
    /\ last' = Resume(t)
    /\ UNCHANGED <<sockState, snap, dbStatus, dbMessages>>
    /\ MsgSame

\* The second findOne followed by another save when it finds nothing.
DmRefoundRetries(t) ==
    /\ t \in tasks /\ t.kind = "dm" /\ t.pc = "refind"
    /\ LET docs == FindDirect(dbRooms, CastPair(SortPair(Owner(t.sock), t.target)))
       IN  IF docs # {}
           THEN DmAttach(t, CHOOSE r \in docs : TRUE, FALSE)
           ELSE /\ emits' = {}
                /\ tasks' = (tasks \ {t}) \cup {[t EXCEPT !.pc = "save"]}
                /\ UNCHANGED <<userSockets, connectedSockets, activeChats, subs>>
    /\ wrote' = {}
    /\ last' = Resume(t)
    /\ UNCHANGED <<sockState, snap>>
    /\ DbSame /\ MsgSame

\* findOrCreateDirectMessage after the findOne that follows a duplicate key.
DmRefound(t) ==
    /\ t \in tasks /\ t.kind = "dm" /\ t.pc = "refind"
    /\ LET docs == FindDirect(dbRooms, CastPair(SortPair(Owner(t.sock), t.target)))
       IN  IF docs # {}
           THEN DmAttach(t, CHOOSE r \in docs : TRUE, FALSE)
           ELSE DmReject(t, "Failed to start DM")
    /\ wrote' = {}
    /\ last' = Resume(t)
    /\ UNCHANGED <<sockState, snap>>
    /\ DbSame /\ MsgSame

\* 'initiate dm' after getRecentMessages: the answer to the initiator and the
\* 'dm list update' to every socket of the target.
DmHistory(t) ==
    /\ t \in tasks /\ t.kind = "dm" /\ t.pc = "history"
    /\ tasks' = tasks \ {t}
    /\ emits' = joinedChat(t.sock, "direct", t.room, {},
                            getRecentMessages(dbMessages, t.room), t.isNew)
                  \cup Deliver(SocketsOf(Mem, t.target),
                               [ev |-> "dm list update", dmRoomId |-> t.room,
                                otherUser |-> Owner(t.sock), hasUnread |-> t.isNew])
    /\ wrote' = {}
    /\ last' = Resume(t)
    /\ UNCHANGED <<sockState, snap, userSockets, connectedSockets, activeChats, subs>>
    /\ DbSame /\ MsgSame

\* ----------------------------------------------------------- chat message

\* Texts a client may send: one that is kept, and one of blanks only.
TextInputs == {"hi", "   "}
\* The white space String.prototype.trim removes, as far as clients send it.
WhiteSpace == {" ", "\t"}

RECURSIVE TrimStart(_)
TrimStart(text) ==
    IF Len(text) > 0 /\ SubSeq(text, 1, 1) \in WhiteSpace
    THEN TrimStart(SubSeq(text, 2, Len(text)))
    ELSE text

RECURSIVE TrimEnd(_)
TrimEnd(text) ==
    IF Len(text) > 0 /\ SubSeq(text, Len(text), Len(text)) \in WhiteSpace
    THEN TrimEnd(SubSeq(text, 1, Len(text) - 1))
    ELSE text

\* String.prototype.trim.
Trim(text) == TrimEnd(TrimStart(text))
MAX_MESSAGE_LENGTH == 1000

\* A text of n characters without white space.
RECURSIVE Filled(_)
Filled(n) ==
    IF n = 0 THEN ""
    ELSE IF n % 2 = 0 THEN Filled(n \div 2) \o Filled(n \div 2)
    ELSE "a" \o Filled(n - 1)

\* Texts around the limits: empty, blank, short, padded, one below the
\* maximum, at the maximum with and without padding, and one above it.
LengthInputs ==
    {"", " \t ", "a", " hi\t",
     Filled(MAX_MESSAGE_LENGTH - 1), Filled(MAX_MESSAGE_LENGTH),
     " " \o Filled(MAX_MESSAGE_LENGTH) \o " ",
     Filled(MAX_MESSAGE_LENGTH + 1), "\t" \o Filled(MAX_MESSAGE_LENGTH + 1)}

\* The length test with the maximum itself refused.
textFitsBelowMax(messageText) ==
    messageText # "" /\ Len(messageText) < MAX_MESSAGE_LENGTH

\* 'chat message': !(!messageText || messageText.length > MAX_MESSAGE_LENGTH).
textFits(messageText) ==
    messageText # "" /\ Len(messageText) <= MAX_MESSAGE_LENGTH

\* Targets a client may name in msgData.chat.
SendTargets ==
    {[type |-> ty, id |-> id] :
        ty \in {"room", "direct"},
        id \in {"general", "lobby"} \cup {r._id : r \in dbRooms}}

\* The target check on the id alone.
targetMatchesIdOnly(socketData, chat) == chat.id = socketData.currentChatId

\* 'chat message': the message is for the chat the socket is in.
targetMatches(socketData, chat) ==
    chat.type = socketData.currentChatType /\ chat.id = socketData.currentChatId

\* socket.on('chat message') up to the await of newMessage.save().
ChatMessage(s, chat, text) ==
    /\ sockState[s] = "live"
    /\ HasRoom
    /\ accepted < MaxMsgs
    /\ chat \in SendTargets
    /\ LET socketData == connectedSockets[s]
       IN  IF socketData.currentChatId = NULL \/ socketData.currentChatType = NULL
           THEN /\ emits' = sendError(s, "Cannot send message: You are not currently in a chat.")
                /\ UNCHANGED <<tasks, accepted>>
           ELSE IF ~targetMatches(socketData, chat)
           THEN /\ emits' = sendError(s, "Message target mismatch. Please rejoin the chat.")
                /\ UNCHANGED <<tasks, accepted>>
           ELSE IF ~textFits(Trim(text))
           THEN /\ emits' = sendError(s, "Message is empty or too long.")
                /\ UNCHANGED <<tasks, accepted>>
           ELSE /\ emits' = {}
                /\ accepted' = accepted + 1
                /\ tasks' = tasks \cup
                       {[kind |-> "msg", sock |-> s, pc |-> "save", m |-> accepted + 1,
                         chatId |-> socketData.currentChatId,
                         chatType |-> socketData.currentChatType,
                         chatDbId |-> activeChats[socketData.currentChatId].dbId,
                         text |-> Trim(text), createdAt |-> 0]}
    /\ wrote' = {}
    /\ last' = [op |-> "chat message", sock |-> s, chat |-> chat, text |-> text]
    /\ UNCHANGED <<sockState, snap, userSockets, connectedSockets, activeChats, subs, recv>>
    /\ DbSame

\* 'chat message' after newMessage.save(): createdAt is the time of the save.
MsgSaved(t) ==
    /\ t \in tasks /\ t.kind = "msg" /\ t.pc = "save"
    /\ LET createdAt == Len(dbMessages) + 1
       IN  /\ dbMessages' = Append(dbMessages,
                                   [m |-> t.m, sender |-> Owner(t.sock), chat |-> t.chatDbId,
                                    text |-> t.text, createdAt |-> createdAt])
           /\ tasks' = (tasks \ {t}) \cup
                          {[t EXCEPT !.pc = "touch", !.createdAt = createdAt]}
    /\ emits' = {}
    /\ wrote' = {}
    /\ last' = Resume(t)
    /\ UNCHANGED <<sockState, snap, userSockets, connectedSockets, activeChats, subs,
                   dbRooms, dbStatus>>
    /\ MsgSame

\* 'chat message' after Room.findByIdAndUpdate(lastActivity: createdAt).
MsgTouched(t) ==
    /\ t \in tasks /\ t.kind = "msg" /\ t.pc = "touch"
    /\ dbRooms' = {IF r._id = t.chatDbId THEN [r EXCEPT !.lastActivity = t.createdAt] ELSE r :
                     r \in dbRooms}
    /\ tasks' = (tasks \ {t}) \cup {[t EXCEPT !.pc = "populate"]}
    /\ emits' = {}
    /\ wrote' = {}
    /\ last' = Resume(t)
    /\ UNCHANGED <<sockState, snap, userSockets, connectedSockets, activeChats, subs,
                   dbStatus, dbMessages>>
    /\ MsgSame

\* The unread mark on the sender's side.
hasUnreadForSender(participantId, userId) == participantId = userId

\* 'chat message': hasUnread is participantId !== userId.
hasUnread(participantId, userId) == participantId # userId

\* 'chat message': the 'dm list update' sent to every socket of participantId,
\* taken when the forEach callback runs; hasUnread is participantId !== userId.
dmListUpdate(t, participantId, otherUser) ==
    Deliver(IF t.kind = "dmlist" /\ t.emptied THEN {} ELSE SocketsOf(Mem, participantId),
            [ev |-> "dm list update", dmRoomId |-> t.chatId, otherUser |-> otherUser,
             hasUnread |-> hasUnread(participantId, Owner(t.sock))])

\* updatedRoom.participants without the sender.
OtherParticipants(t) ==
    UNION {Range(r.participants) : r \in FindById(dbRooms, t.chatDbId)} \ {Owner(t.sock)}

\* socket.to(chatId) in place of io.to(chatId): the room without the sender.
roomWithoutSender(m, s, chatId) == InRoom(m, chatId) \ {s}

\* 'chat message': io.to(chatId), the sockets a message is broadcast to.
roomOfMessage(m, s, chatId) == InRoom(m, chatId)

\* 'chat message' after Message.findById(...).populate('sender'):
\* io.to(chatId).emit('chat message', broadcastData).
MsgPopulated(t) ==
    /\ t \in tasks /\ t.kind = "msg" /\ t.pc = "populate"
    /\ LET to == {s \in roomOfMessage(Mem, t.sock, t.chatId) : sockState[s] = "live"}
       IN  /\ emits' = Deliver(to, [ev |-> "chat message", m |-> t.m,
                                    sender |-> Owner(t.sock),
                                    chat |-> [type |-> t.chatType, id |-> t.chatId]])
                         \cup (IF t.chatType = "direct"
                               THEN dmListUpdate(t, Owner(t.sock), Owner(t.sock))
                               ELSE {})
           /\ recv' = [s \in Sockets |-> IF s \in to THEN Append(recv[s], t.m) ELSE recv[s]]
    /\ tasks' = (tasks \ {t}) \cup
                   (IF t.chatType = "direct"
                    THEN {[kind |-> "dmlist", sock |-> t.sock, pc |-> "findUser",
                           m |-> t.m, chatId |-> t.chatId, createdAt |-> t.createdAt,
                           participant |-> p, emptied |-> FALSE,
                           targetSockets |-> SocketsOf(Mem, p)] :
                             p \in {q \in OtherParticipants(t) : SocketsOf(Mem, q) # {}}}
                    ELSE {})
    /\ wrote' = {}
    /\ last' = Resume(t)
    /\ UNCHANGED <<sockState, snap, userSockets, connectedSockets, activeChats, subs,
                   accepted>>
    /\ DbSame

\* 'chat message', the forEach over the participants, for a participant other
\* than the sender: after User.findById(participantId).
DmListFetched(t) ==
    /\ t \in tasks /\ t.kind = "dmlist"
    /\ tasks' = tasks \ {t}
    /\ emits' = dmListUpdate(t, t.participant, t.participant)
    /\ wrote' = {}
    /\ last' = Resume(t)
    /\ UNCHANGED <<sockState, snap, userSockets, connectedSockets, activeChats, subs>>
    /\ DbSame /\ MsgSame

\* ------------------------------------------------- persistence failures

\* 'join chat': an awaited Room call inside the try rejects; the catch answers
\* through sendError and the handler ends.
JoinFailed(t) ==
    /\ t \in tasks /\ t.kind = "join"
    /\ t.pc \in {"findOne", "save", "findById", "participants"}
    /\ JoinReject(t, "Failed to join chat")
    /\ wrote' = {}
    /\ last' = [op |-> "failure", task |-> t]
    /\ UNCHANGED <<sockState, snap>>
    /\ DbSame /\ MsgSame

\* 'chat message': newMessage.save(), Room.findByIdAndUpdate or
\* Message.findById rejects; the catch answers through sendError. A message
\* saved before the failure stays stored.
MsgFailed(t) ==
    /\ t \in tasks /\ t.kind = "msg"
    /\ emits' = sendError(t.sock, "Server error: Could not send your message.")
    /\ tasks' = tasks \ {t}
    /\ wrote' = {}
    /\ last' = [op |-> "failure", task |-> t]
    /\ UNCHANGED <<sockState, snap, userSockets, connectedSockets, activeChats, subs>>
    /\ DbSame /\ MsgSame

\* 'set status': User.findByIdAndUpdate rejects; the catch answers through
\* sendError.
StatusFailed(t) ==
    /\ t \in tasks /\ t.kind = "status"
    /\ emits' = sendError(t.sock, "Failed to update status on server.")
    /\ tasks' = tasks \ {t}
    /\ wrote' = {}
    /\ last' = [op |-> "failure", task |-> t]
    /\ UNCHANGED <<sockState, snap, userSockets, connectedSockets, activeChats, subs>>
    /\ DbSame /\ MsgSame

\* 'set status': User.findByIdAndUpdate resolves with null, the identity's
\* document being gone; the handler answers through sendError.
StatusNotFound(t) ==
    /\ t \in tasks /\ t.kind = "status"
    /\ emits' = sendError(t.sock, "Failed to update status: User not found.")
    /\ tasks' = tasks \ {t}
    /\ wrote' = {}
    /\ last' = [op |-> "not found", task |-> t]
    /\ UNCHANGED <<sockState, snap, userSockets, connectedSockets, activeChats, subs>>
    /\ DbSame /\ MsgSame

\* The relay of a typing event through io.to(chatId), which reaches the sender.
relayTypingToAll(m, s, ev, chatId) ==
    IF /\ s \in DOMAIN m.cs
       /\ m.cs[s].currentChatId # NULL
       /\ chatId = m.cs[s].currentChatId
    THEN Deliver(InRoom(m, chatId),
                 [ev |-> ev, user |-> Owner(s),
                  chat |-> [type |-> m.cs[s].currentChatType, id |-> chatId]])
    ELSE {}

\* The body shared by 'typing' and 'stop typing': when data.chat.id is the
\* connection's currentChatId, socket.to(currentChatId).emit(ev, ...).
relayTyping(m, s, ev, chatId) ==
    IF /\ s \in DOMAIN m.cs
       /\ m.cs[s].currentChatId # NULL
       /\ chatId = m.cs[s].currentChatId
    THEN Deliver(InRoom(m, chatId) \ {s},
                 [ev |-> ev, user |-> Owner(s),
                  chat |-> [type |-> m.cs[s].currentChatType, id |-> chatId]])
    ELSE {}

\* socket.on('typing'), chatId being data?.chat?.id.
Typing(s, chatId) ==
    /\ sockState[s] = "live"
    /\ emits' = relayTyping(Mem, s, "typing", chatId)
    /\ wrote' = {}
    /\ last' = [op |-> "typing", sock |-> s, id |-> chatId]
    /\ UNCHANGED <<sockState, snap, userSockets, connectedSockets, activeChats, subs, tasks>>
    /\ DbSame /\ MsgSame

\* socket.on('stop typing'), chatId being data?.chat?.id.
TypingStopped(s, chatId) ==
    /\ sockState[s] = "live"
    /\ emits' = relayTyping(Mem, s, "stop typing", chatId)
    /\ wrote' = {}
    /\ last' = [op |-> "stop typing", sock |-> s, id |-> chatId]
    /\ UNCHANGED <<sockState, snap, userSockets, connectedSockets, activeChats, subs, tasks>>
    /\ DbSame /\ MsgSame

\* 'disconnect': the offline write rejects; the catch logs the error.
DisconnectFailed(t) ==
    /\ t \in tasks /\ t.kind = "disconnect"
    /\ emits' = {}
    /\ tasks' = tasks \ {t}
    /\ wrote' = {}
    /\ last' = [op |-> "failure", task |-> t]
    /\ UNCHANGED <<sockState, snap, userSockets, connectedSockets, activeChats, subs>>
    /\ DbSame /\ MsgSame

\* ------------------------------------------------------------------- Next

\* The continuations of suspended handlers.
PresenceResumes ==
    \/ \E t \in tasks : ConnectUpdated(t)
    \/ \E t \in tasks : DisconnectUpdated(t)

JoinRoomResumes ==
    \/ \E t \in tasks : JoinFoundOne(t)
    \/ \E t \in tasks : JoinHistory(t)
    \/ \E t \in tasks : JoinUsers(t)
    \/ \E t \in tasks : UserListFetched(t)

JoinDirectResumes ==
    \/ \E t \in tasks : JoinFoundById(t)
    \/ \E t \in tasks : JoinParticipants(t)

DmResumes ==
    \/ \E t \in tasks : DmFoundUser(t)
    \/ \E t \in tasks : DmFoundOne(t)
    \/ \E t \in tasks : DmSaved(t)
    \/ \E t \in tasks : DmRefound(t)
    \/ \E t \in tasks : DmHistory(t)

MsgResumes ==
    \/ \E t \in tasks : MsgSaved(t)
    \/ \E t \in tasks : MsgTouched(t)
    \/ \E t \in tasks : MsgPopulated(t)

\* Membership: three connections of two identities around the default room,
\* with the join requests the handler refuses.
Next ==
    \/ \E s \in Sockets : Connect(s)
    \/ \E s \in Sockets : Disconnect(s)
    \/ \E s \in Sockets :
          \E data \in {[type |-> "room", id |-> "general"], [type |-> "room", id |-> "No"],
                       [type |-> "direct", id |-> GhostId], [type |-> "direct", id |-> BadId],
                       [type |-> "dm", id |-> ObjectIds[1]], [type |-> "", id |-> ""]} :
             JoinChat(s, data)
    \/ PresenceResumes
    \/ JoinRoomResumes
    \/ \E t \in tasks : JoinFoundById(t)

Spec == Init /\ [][Next]_vars

\* Public rooms: one connection of each identity, every room name.
NextRooms ==
    \/ \E s \in {"s1", "s3"} : Connect(s)
    \/ \E s \in Sockets : Disconnect(s)
    \/ \E s \in Sockets, n \in RoomNames : JoinChat(s, [type |-> "room", id |-> n])
    \/ PresenceResumes
    \/ JoinRoomResumes
    \/ \E t \in tasks : JoinSaved(t)

SpecRooms == Init /\ [][NextRooms]_vars

\* Direct chats: one connection of each identity, every target.
NextDirect ==
    \/ \E s \in {"s1", "s3"} : Connect(s)
    \/ \E s \in Sockets : Disconnect(s)
    \/ \E s \in Sockets, target \in DmTargets : InitiateDm(s, target)
    \/ \E s \in Sockets :
          \E data \in {d \in JoinInputs : d.type = "direct"} : JoinChat(s, data)
    \/ PresenceResumes
    \/ JoinDirectResumes
    \/ \E t \in tasks : JoinHistory(t)
    \/ DmResumes

SpecDirect == Init /\ [][NextDirect]_vars

\* Presence: three connections of two identities, every status a client may
\* set, and one connection of each identity in the default room.
NextStatus ==
    \/ \E s \in Sockets : Connect(s)
    \/ \E s \in Sockets : Disconnect(s)
    \/ \E s \in Sockets, status \in StatusInputs : SetStatus(s, status)
    \/ \E s \in {"s1", "s3"} : JoinChat(s, [type |-> "room", id |-> "general"])
    \/ PresenceResumes
    \/ \E t \in tasks : StatusUpdated(t)
    \/ JoinRoomResumes

SpecStatus == Init /\ [][NextStatus]_vars

\* Routing: one connection of each identity, the default room, every target
\* and text.
NextSend ==
    \/ \E s \in {"s1", "s3"} : Connect(s)
    \/ \E s \in Sockets : Disconnect(s)
    \/ \E s \in Sockets : JoinChat(s, [type |-> "room", id |-> "general"])
    \/ \E s \in Sockets, chat \in SendTargets, text \in TextInputs : ChatMessage(s, chat, text)
    \/ PresenceResumes
    \/ JoinRoomResumes
    \/ MsgResumes

SpecSend == Init /\ [][NextSend]_vars

\* The forEach callbacks of 'chat message' suspended on User.findById.
DmListResumes == \E t \in tasks : DmListFetched(t)

\* Direct routing: one connection of each of two identities, direct chats
\* with each other and with a third identity, joins of the stored chats by
\* either of them, and messages in the chat a connection is attached to.
NextDm ==
    \/ \E s \in {"s1", "s3"} : Connect(s)
    \/ \E s \in Sockets : Disconnect(s)
    \/ \E s \in Sockets : \E target \in Users \ {Owner(s)} : InitiateDm(s, target)
    \/ \E s \in Sockets :
          \E data \in {d \in JoinInputs : d.type = "direct" /\ d.id \notin {GhostId, BadId}} :
             JoinChat(s, data)
    \/ \E s \in Sockets, chat \in {c \in SendTargets : c.type = "direct"} :
          accepted < MaxDmMsgs /\ ChatMessage(s, chat, "hi")
    \/ PresenceResumes
    \/ JoinDirectResumes
    \/ \E t \in tasks : JoinHistory(t)
    \/ DmResumes
    \/ MsgResumes
    \/ DmListResumes

SpecDm == Init /\ [][NextDm]_vars

\* Presence fan-out: two connections of one identity and one of another, the
\* default room and a direct chat between the two, and a status change.
NextPresence ==
    \/ \E s \in Sockets : Connect(s)
    \/ \E s \in Sockets : Disconnect(s)
    \/ \E s \in Sockets : SetStatus(s, "away")
    \/ \E s \in {"s2", "s3"} : JoinChat(s, [type |-> "room", id |-> "general"])
    \/ InitiateDm("s1", "u2")
    \/ PresenceResumes
    \/ \E t \in tasks : StatusUpdated(t)
    \/ JoinRoomResumes
    \/ \E t \in tasks : DmFoundUser(t)
    \/ \E t \in tasks : DmFoundOne(t)
    \/ \E t \in tasks : DmSaved(t)
    \/ \E t \in tasks : DmHistory(t)

SpecPresence == Init /\ [][NextPresence]_vars

\* No request of socket s is being handled: its client waits for the answer
\* to one request before it sends the next.
Idle(s) == ~ \E t \in tasks : t.sock = s /\ t.kind \in {"join", "dm", "msg"}

\* Failures: one connection of each identity, two public rooms and a message,
\* with every awaited persistence call of a join, a send and a disconnect free
\* to reject. A client sends one request at a time.
NextFail ==
    \/ \E s \in {"s1", "s3"} : Connect(s)
    \/ \E s \in Sockets : Disconnect(s)
    \/ \E s \in Sockets : Idle(s) /\ JoinChat(s, [type |-> "room", id |-> "general"])
    \/ Idle("s1") /\ JoinChat("s1", [type |-> "room", id |-> "lobby"])
    \/ \E s \in Sockets :
          /\ Idle(s) /\ accepted < MaxDmMsgs
          /\ ChatMessage(s, [type |-> "room", id |-> "general"], "hi")
    \/ PresenceResumes
    \/ JoinRoomResumes
    \/ \E t \in tasks : JoinSaved(t)
    \/ MsgResumes
    \/ \E t \in tasks : JoinFailed(t)
    \/ \E t \in tasks : MsgFailed(t)
    \/ \E t \in tasks : DisconnectFailed(t)

SpecFail == Init /\ [][NextFail]_vars

\* Refusals: two connections of one identity and the requests that the join,
\* initiate dm, chat message and set status handlers refuse, next to a join
\* of the default room and one accepted message.
NextReject ==
    \/ \E s \in {"s1", "s2"} : Connect(s)
    \/ Disconnect("s2")
    \/ \E s \in {"s1", "s2"} :
          \E data \in {[type |-> "room", id |-> "general"], [type |-> "room", id |-> "No"],
                       [type |-> "direct", id |-> GhostId], [type |-> "direct", id |-> BadId],
                       [type |-> "dm", id |-> ObjectIds[1]]} :
             Idle(s) /\ JoinChat(s, data)
    \/ \E s \in {"s1", "s2"}, target \in {"", BadId, GhostId, "u1"} :
          Idle(s) /\ InitiateDm(s, target)
    \/ \E s \in {"s1", "s2"}, text \in TextInputs :
          \E chat \in {[type |-> "room", id |-> "general"], [type |-> "room", id |-> "lobby"]} :
             Idle(s) /\ accepted < MaxDmMsgs /\ ChatMessage(s, chat, text)
    \/ \E s \in {"s1", "s2"} : SetStatus(s, "")
    \/ PresenceResumes
    \/ JoinRoomResumes
    \/ \E t \in tasks : JoinFoundById(t)
    \/ \E t \in tasks : DmFoundUser(t)
    \/ MsgResumes

SpecReject == Init /\ [][NextReject]_vars

\* Direct chats asked for with the requester's own id, in the spelling of
\* user.id and in upper case, next to a direct chat of two identities and a
\* join of the default room.
NextSelf ==
    \/ \E s \in {"s1", "s3"} : Connect(s)
    \/ \E s \in {"s1", "s3"} : Disconnect(s)
    \/ \E target \in {"u1", UpperId, "u2"} : Idle("s1") /\ InitiateDm("s1", target)
    \/ Idle("s3") /\ InitiateDm("s3", "u1")
    \/ Idle("s1") /\ JoinChat("s1", [type |-> "room", id |-> "general"])
    \/ PresenceResumes
    \/ JoinRoomResumes
    \/ DmResumes

SpecSelf == Init /\ [][NextSelf]_vars

\* The stored direct chats that hold identity u.
DirectChatsOf(u) == {r \in dbRooms : r.type = "direct" /\ u \in Range(r.participants)}

\* The requests of the shipped client: a click in the user list sends
\* 'initiate dm', a click in the room list joinChat('room', name), and a click
\* in the DM list joinChat('dm', dmRoomId), which emits 'join chat' {type, id}.
NextClient ==
    \/ \E s \in {"s1", "s3"} : Connect(s)
    \/ \E s \in {"s1", "s3"} : Disconnect(s)
    \/ Idle("s1") /\ InitiateDm("s1", "u2")
    \/ Idle("s3") /\ InitiateDm("s3", "u1")
    \/ \E s \in {"s1", "s3"} : Idle(s) /\ JoinChat(s, [type |-> "room", id |-> "general"])
    \/ \E s \in {"s1", "s3"} :
          \E r \in DirectChatsOf(Owner(s)) : Idle(s) /\ JoinChat(s, [type |-> "dm", id |-> r._id])
    \/ PresenceResumes
    \/ JoinRoomResumes
    \/ DmResumes

SpecClient == Init /\ [][NextClient]_vars

\* Text limits: one connection sends texts around the limits to the default
\* room while a connection of another identity is attached to it.
NextText ==
    \/ \E s \in {"s1", "s3"} : Connect(s)
    \/ Disconnect("s3")
    \/ \E s \in {"s1", "s3"} : Idle(s) /\ JoinChat(s, [type |-> "room", id |-> "general"])
    \/ \E text \in LengthInputs :
          Idle("s1") /\ ChatMessage("s1", [type |-> "room", id |-> "general"], text)
    \/ PresenceResumes
    \/ JoinRoomResumes
    \/ MsgResumes

SpecText == Init /\ [][NextText]_vars

\* A second public room stored before the server starts.
LobbyDoc ==
    [_id |-> ObjectIds[2], type |-> "public", name |-> "lobby",
     owner |-> "u2", participants |-> <<>>, lastActivity |-> 0]

\* The messages a store of n messages holds: all of them of the default room,
\* or every third one of the other room; inserted in the order of their
\* creation, or in the opposite order.
StoredMessages(n, spread, inOrder) ==
    [i \in 1..n |->
        [m |-> i, sender |-> IF i % 2 = 0 THEN "u1" ELSE "u2",
         chat |-> IF spread /\ i % 3 = 0 THEN LobbyDoc._id ELSE DefaultRoomDoc._id,
         text |-> "hi",
         createdAt |-> IF inOrder THEN i ELSE n + 1 - i]]

\* The server starts on a store that holds two public rooms and up to MaxStored
\* messages.
InitHistory ==
    /\ sockState = [s \in Sockets |-> "new"]
    /\ snap = [s \in Sockets |-> "offline"]
    /\ userSockets = EmptyMap
    /\ connectedSockets = EmptyMap
    /\ activeChats = Put(EmptyMap, DEFAULT_ROOM,
                         [name |-> "General", type |-> "room",
                          dbId |-> DefaultRoomDoc._id, members |-> {}])
    /\ subs = [s \in Sockets |-> {}]
    /\ dbRooms = {DefaultRoomDoc, LobbyDoc}
    /\ dbStatus = [u \in Users |-> "offline"]
    /\ \E n \in 0..MaxStored, spread \in BOOLEAN, inOrder \in BOOLEAN :
          /\ dbMessages = StoredMessages(n, spread, inOrder)
          /\ accepted = n
    /\ recv = [s \in Sockets |-> <<>>]
    /\ tasks = {}
    /\ emits = {}
    /\ wrote = {}
    /\ last = [op |-> "start"]

\* History: one connection joins the two stored rooms in turn; the query of
\* the history returns or is caught failing.
NextHistory ==
    \/ Connect("s1")
    \/ \E n \in {"general", "lobby"} : Idle("s1") /\ JoinChat("s1", [type |-> "room", id |-> n])
    \/ \E t \in tasks : ConnectUpdated(t)
    \/ JoinRoomResumes
    \/ \E t \in tasks : JoinHistoryFailed(t)

SpecHistory == InitHistory /\ [][NextHistory]_vars

\* Overlap: one connection sends joins of two rooms and an 'initiate dm'
\* without waiting for the answers.
NextOverlap ==
    \/ Connect("s1")
    \/ \E n \in {"general", "lobby"} : JoinChat("s1", [type |-> "room", id |-> n])
    \/ InitiateDm("s1", "u2")
    \/ \E t \in tasks : ConnectUpdated(t)
    \/ JoinRoomResumes
    \/ \E t \in tasks : JoinSaved(t)
    \/ \E t \in tasks : DmFoundUser(t)
    \/ \E t \in tasks : DmFoundOne(t)
    \/ \E t \in tasks : DmSaved(t)
    \/ \E t \in tasks : DmHistory(t)

SpecOverlap == Init /\ [][NextOverlap]_vars

\* Gone: one connection sends a join or an 'initiate dm' and may disconnect
\* before the answer; nobody else is connected.
NextGone ==
    \/ Connect("s1")
    \/ Disconnect("s1")
    \/ \E n \in {"general", "lobby"} : Idle("s1") /\ JoinChat("s1", [type |-> "room", id |-> n])
    \/ Idle("s1") /\ InitiateDm("s1", "u2")
    \/ PresenceResumes
    \/ JoinRoomResumes
    \/ \E t \in tasks : JoinSaved(t)
    \/ \E t \in tasks : DmFoundUser(t)
    \/ \E t \in tasks : DmFoundOne(t)
    \/ \E t \in tasks : DmSaved(t)
    \/ \E t \in tasks : DmHistory(t)

SpecGone == Init /\ [][NextGone]_vars

\* Typing: a connection of each identity moves between two rooms and a direct
\* chat and names, in its typing events, a room, a stored chat or nothing.
NextTyping ==
    \/ \E s \in {"s1", "s3"} : Connect(s)
    \/ Disconnect("s3")
    \/ \E s \in {"s1", "s3"} : Idle(s) /\ JoinChat(s, [type |-> "room", id |-> "general"])
    \/ Idle("s1") /\ JoinChat("s1", [type |-> "room", id |-> "lobby"])
    \/ Idle("s1") /\ InitiateDm("s1", "u2")
    \/ \E s \in {"s1", "s3"}, id \in {"general", NULL} \cup {r._id : r \in dbRooms} :
          Typing(s, id)
    \/ \E s \in {"s1", "s3"}, id \in {"general", NULL} \cup {r._id : r \in dbRooms} :
          TypingStopped(s, id)
    \/ PresenceResumes
    \/ JoinRoomResumes
    \/ \E t \in tasks : JoinSaved(t)
    \/ \E t \in tasks : DmFoundUser(t)
    \/ \E t \in tasks : DmFoundOne(t)
    \/ \E t \in tasks : DmSaved(t)
    \/ \E t \in tasks : DmHistory(t)

SpecTyping == Init /\ [][NextTyping]_vars

\* Switches: one connection of each identity goes from chat to chat, public
\* and direct, one request at a time.
NextSwitch ==
    \/ \E s \in {"s1", "s3"} : Connect(s)
    \/ \E s \in {"s1", "s3"} : Disconnect(s)
    \/ \E n \in {"general", "lobby"} : Idle("s1") /\ JoinChat("s1", [type |-> "room", id |-> n])
    \/ Idle("s3") /\ JoinChat("s3", [type |-> "room", id |-> "general"])
    \/ \E r \in DirectChatsOf("u1") :
          Idle("s1") /\ JoinChat("s1", [type |-> "direct", id |-> r._id])
    \/ Idle("s1") /\ InitiateDm("s1", "u2")
    \/ Idle("s3") /\ InitiateDm("s3", "u1")
    \/ PresenceResumes
    \/ JoinRoomResumes
    \/ \E t \in tasks : JoinSaved(t)
    \/ JoinDirectResumes
    \/ \E t \in tasks : DmFoundUser(t)
    \/ \E t \in tasks : DmFoundOne(t)
    \/ \E t \in tasks : DmSaved(t)
    \/ \E t \in tasks : DmRefound(t)
    \/ \E t \in tasks : DmHistory(t)

SpecSwitch == Init /\ [][NextSwitch]_vars

\* Status changes: one connection naming every status a client may name, the
\* write succeeding, rejecting or finding no document, while a connection of
\* another identity shares the default room and comes and goes.
NextSetStatus ==
    \/ \E s \in {"s1", "s3"} : Connect(s)
    \/ Disconnect("s3")
    \/ \E s \in {"s1", "s3"} : Idle(s) /\ JoinChat(s, [type |-> "room", id |-> "general"])
    \/ \E status \in StatusInputs \cup {"dnd"} : SetStatus("s1", status)
    \/ PresenceResumes
    \/ JoinRoomResumes
    \/ \E t \in tasks : StatusUpdated(t)
    \/ \E t \in tasks : StatusFailed(t)
    \/ \E t \in tasks : StatusNotFound(t)

SpecSetStatus == Init /\ [][NextSetStatus]_vars

\* Member lists: three connections of two identities join and leave the
\* default room, one of them also a second room, one request at a time.
NextLists ==
    \/ \E s \in Sockets : Connect(s)
    \/ \E s \in Sockets : Disconnect(s)
    \/ \E s \in Sockets : Idle(s) /\ JoinChat(s, [type |-> "room", id |-> "general"])
    \/ Idle("s1") /\ JoinChat("s1", [type |-> "room", id |-> "lobby"])
    \/ PresenceResumes
    \/ JoinRoomResumes
    \/ \E t \in tasks : JoinSaved(t)

SpecLists == Init /\ [][NextLists]_vars

\* Direct chat summaries: a direct chat between an identity with one
\* connection and an identity with two, and messages in it.
NextDmList ==
    \/ \E s \in Sockets : Connect(s)
    \/ \E s \in Sockets : Disconnect(s)
    \/ InitiateDm("s3", "u1") \/ InitiateDm("s1", "u2")
    \/ \E s \in {"s1", "s3"}, chat \in {c \in SendTargets : c.type = "direct"} :
          accepted < MaxDmMsgs /\ ChatMessage(s, chat, "hi")
    \/ PresenceResumes
    \/ DmResumes
    \/ MsgResumes
    \/ DmListResumes

SpecDmList == Init /\ [][NextDmList]_vars

\* ----------------------------------------------------------------- claims

\* The sockets registered and attached to chat c.
AttachedTo(c) ==
    {s \in DOMAIN connectedSockets : connectedSockets[s].currentChatId = c}

\* C1: for every conversation, the in-memory member set is exactly the set of
\* identities that own at least one live connection attached to it.
C1_MembersAreAttachedOwners ==
    \A c \in DOMAIN activeChats :
        activeChats[c].members = {connectedSockets[s].userId : s \in AttachedTo(c)}

\* C7: the identity of every registered connection that records an attachment
\* is in the member set of the chat it is attached to.
C7_AttachedOwnerIsMember ==
    \A s \in DOMAIN connectedSockets :
        connectedSockets[s].currentChatId # NULL
            => connectedSockets[s].userId
                   \in MembersOf(activeChats, connectedSockets[s].currentChatId)

\* The last step ran the continuation of a handler of this kind at this await.
Resumed(kind, pc) ==
    last.op = "resume" /\ last.task.kind = kind /\ last.task.pc = pc

\* The sockets the last step delivered an event of this name to.
Got(ev) == {e.to : e \in {x \in emits : x.ev = ev}}

\* C3: the offline broadcast that follows the disconnect of an identity's last
\* connection reaches every live connection of exactly the identities that
\* shared an active chat with it when it disconnected.
C3_OfflineReachesSharers ==
    Resumed("disconnect", "update")
        => /\ Got("presence update")
                  = UNION {SocketsOf(Mem, v) : v \in last.task.shared}
           /\ \A e \in emits : e.ev = "presence update"
                  => e.status = "offline" /\ e.user = Owner(last.task.sock)

\* The texts with which 'join chat' refuses a malformed room name, an unknown
\* chat type, a direct chat that is not stored, and a requester that is no
\* participant.
JoinRefusals ==
    {"Invalid room name format.", "Invalid chat type specified.",
     "Direct message chat not found.", "Not authorized for this direct message."}

\* The last step refused a join request of socket s.
JoinRefused(s) ==
    /\ \/ last.op = "join chat" /\ last.sock = s
       \/ last.op = "resume" /\ last.task.kind = "join" /\ last.task.sock = s
    /\ \E e \in emits : e.to = s /\ e.ev = "error message" /\ e.msg \in JoinRefusals

\* What the refused request had found when it arrived.
RefusedWas == IF last.op = "join chat" THEN last.was ELSE last.task.was

\* C9: a refused join request leaves the connection attached to the chat it
\* was attached to, and that chat's member set as it was.
C9_RefusedJoinChangesNothing ==
    \A s \in Sockets :
        JoinRefused(s)
            => /\ AttachmentOf(connectedSockets, s).id = RefusedWas.id
               /\ AttachmentOf(connectedSockets, s).type = RefusedWas.type
               /\ MembersOf(activeChats, RefusedWas.id) = RefusedWas.members

\* The stored direct chats whose participants are the identities a and b.
DirectOf(a, b) ==
    {r \in dbRooms : r.type = "direct" /\ Range(r.participants) = {a, b}}

\* C2: the store holds at most one direct chat for every pair of distinct
\* identities.
C2_OneDirectChatPerPair ==
    \A a \in Users, b \in Users :
        a # b => Cardinality(DirectOf(a, b)) <= 1

\* Two initiators raced: one is at the findOne that follows its duplicate key
\* while the chat of its pair is stored.
C2_Witness ==
    \E t \in tasks :
        /\ t.kind = "dm" /\ t.pc = "refind"
        /\ DirectOf(Owner(t.sock), t.target) # {}

\* The step ran the continuation of a handler of this kind at this await.
Resuming(kind, pc) ==
    last'.op = "resume" /\ last'.task.kind = kind /\ last'.task.pc = pc

\* The suspended 'initiate dm' handlers of one pair that hold a resolved chat.
ResolvedFor(a, b) ==
    {t \in tasks : t.kind = "dm" /\ t.pc = "history" /\ {Owner(t.sock), t.target} = {a, b}}

C10_Step ==
    /\ \* a save that meets the stored chat of its pair goes on to the re-query
       Resuming("dm", "save") /\ DirectOf(Owner(last'.task.sock), last'.task.target) # {}
           => /\ [last'.task EXCEPT !.pc = "refind"] \in tasks'
              /\ ~ \E e \in emits' : e.ev = "error message"
    /\ \* the re-query returns the stored chat with isNew = false, and no error
       Resuming("dm", "refind") /\ DirectOf(Owner(last'.task.sock), last'.task.target) # {}
           => /\ \E r \in DirectOf(Owner(last'.task.sock), last'.task.target) :
                    [last'.task EXCEPT !.pc = "history", !.room = r._id, !.isNew = FALSE]
                        \in tasks'
              /\ ~ \E e \in emits' : e.ev = "error message"
    /\ \* initiators of one pair hold the same chat, and at most one created it
       \A a \in Users, b \in Users :
           \A t1 \in ResolvedFor(a, b)', t2 \in ResolvedFor(a, b)' :
               /\ t1.room = t2.room
               /\ t1 # t2 => ~(t1.isNew /\ t2.isNew)

\* C10: a create attempt that fails on the uniqueness of a pair stored by a
\* concurrent caller is followed by a re-query that returns the stored chat
\* with wasCreated = false and no error; racing initiators of one pair obtain
\* the same chat and at most one of them wasCreated = true.
C10_ConflictReturnsExisting == [][C10_Step]_vars

\* A re-query has just returned the chat that the other initiator created.
C10_Witness ==
    /\ Resumed("dm", "refind")
    /\ \E t1 \in tasks, t2 \in tasks :
          /\ t1.kind = "dm" /\ t1.pc = "history" /\ t1.sock = last.task.sock /\ ~t1.isNew
          /\ t2.kind = "dm" /\ t2.pc = "history" /\ t2.sock # t1.sock /\ t2.isNew
          /\ t1.room = t2.room

\* The stored public rooms of one name.
PublicNamed(n) == {r \in dbRooms : r.type = "public" /\ r.name = n}

C6_Step ==
    /\ \* a join that finds no room of a well-formed name creates the room and
       \* goes on with isNew = true
       \A n \in RoomNames :
           PublicNamed(n) = {} /\ Resuming("join", "save") /\ last'.task.id = n
               => /\ Cardinality(PublicNamed(n)') = 1
                  /\ [last'.task EXCEPT !.pc = "history", !.chatId = n, !.isNew = TRUE]
                         \in tasks'
    /\ \* a join that finds the room goes on with isNew = false
       \A n \in RoomNames :
           PublicNamed(n) # {} /\ Resuming("join", "findOne") /\ last'.task.id = n
               => [last'.task EXCEPT !.pc = "history", !.chatId = n, !.isNew = FALSE]
                      \in tasks'
    /\ \* the answer names the room asked for and carries the handler's isNew,
       \* and isNew = true goes to the identity that created the room only
       \A e \in emits' :
           e.ev = "joined chat" /\ e.chat.type = "room"
               => /\ e.chat.id = last'.task.id
                  /\ e.isNew = last'.task.isNew
                  /\ \E r \in PublicNamed(e.chat.id)' : e.isNew => r.owner = Owner(e.to)
    /\ \* no second public room of a name
       \A n \in RoomNames : Cardinality(PublicNamed(n)') <= 1

\* C6: joining a well-formed public name that is not stored creates the room
\* and answers wasCreated = true; a join of the name by another identity
\* answers wasCreated = false and the same id; the name is never stored twice.
C6_CreateThenJoinRoundTrip == [][C6_Step]_vars

\* The other identity has just been answered for the room the first created.
C6_Witness ==
    \E e \in emits :
        /\ e.ev = "joined chat" /\ e.chat.id = "lobby" /\ ~e.isNew
        /\ \E r \in PublicNamed("lobby") : r.owner # Owner(e.to)

C8_Step ==
    /\ \* offline is written by the suspended disconnect handler of the identity
       \A w \in wrote' :
           w.status = "offline"
               => /\ Resuming("disconnect", "update")
                  /\ last'.task \in tasks
                  /\ Owner(last'.task.sock) = w.user
    /\ \A u \in Users :
           dbStatus'[u] = "offline" /\ dbStatus[u] # "offline"
               => [user |-> u, status |-> "offline"] \in wrote'
    /\ \* which is suspended by the disconnect of the identity's last connection
       \A t \in tasks' \ tasks :
           t.kind = "disconnect"
               => /\ sockState[t.sock] = "live" /\ sockState'[t.sock] = "closed"
                  /\ SocketsOf(Mem, Owner(t.sock)) = {t.sock}

\* C8: the persisted status of an identity is written offline only by the
\* disconnect of its last live connection.
C8_OfflineOnlyByLastDisconnect == [][C8_Step]_vars

\* Offline has just been written for the identity with two connections, after
\* the second of them closed.
C8_Witness ==
    /\ wrote = {[user |-> "u1", status |-> "offline"]}
    /\ sockState["s1"] = "closed" /\ sockState["s2"] = "closed"

\* The chat a persisted message belongs to.
ChatOfMessage(m) ==
    LET rec == CHOOSE x \in Range(dbMessages) : x.m = m IN rec.chat

\* C4: every connection receives the messages of one chat in the order the
\* router accepted them (message ids count acceptances).
C4_DeliveredInAcceptanceOrder ==
    \A s \in Sockets :
        \A i \in 1..Len(recv[s]), j \in 1..Len(recv[s]) :
            i < j /\ ChatOfMessage(recv[s][i]) = ChatOfMessage(recv[s][j])
                => recv[s][i] < recv[s][j]

C5_Step ==
    last'.op = "chat message"
      /\ ~(/\ connectedSockets[last'.sock].currentChatId # NULL
           /\ last'.chat.type = connectedSockets[last'.sock].currentChatType
           /\ last'.chat.id = connectedSockets[last'.sock].currentChatId)
        => /\ dbMessages' = dbMessages
           /\ tasks' = tasks
           /\ accepted' = accepted
           /\ recv' = recv
           /\ emits' = {[to |-> last'.sock, ev |-> "error message", msg |-> e.msg] :
                          e \in emits'}
           /\ emits' # {}

\* C5: a send whose target is not the chat the connection is attached to, or
\* from an unattached connection, persists nothing, delivers no message event
\* and answers the sender with an error.
C5_MismatchedSendRejected == [][C5_Step]_vars

\* An attached connection has just been refused a send to another chat.
C5_Witness ==
    /\ last.op = "chat message"
    /\ connectedSockets[last.sock].currentChatId = "general"
    /\ last.chat.id = "general" /\ last.chat.type = "direct"
    /\ Got("error message") = {last.sock}

\* The stored direct chat of this id.
DirectDoc(c) == {r \in dbRooms : r._id = c /\ r.type = "direct"}

\* C11: a connection attached or subscribed to a direct chat belongs to one of
\* the chat's participants, and a 'chat message' of a direct chat is delivered
\* to connections of its participants only.
C11_DirectChatsAreForParticipants ==
    \A s \in Sockets :
        /\ \A c \in subs[s] \cup {AttachmentOf(connectedSockets, s).id} :
               \A r \in DirectDoc(c) : Owner(s) \in Range(r.participants)
        /\ \A e \in emits :
               e.ev = "chat message" /\ e.to = s
                   => \A r \in DirectDoc(e.chat.id) : Owner(s) \in Range(r.participants)

\* A connection of another identity has just been refused the direct chat that
\* a participant is attached to.
C11_Witness ==
    /\ Resumed("join", "participants")
    /\ \E e \in emits : /\ e.to = last.task.sock /\ e.ev = "error message"
                         /\ e.msg = "Not authorized for this direct message."
    /\ \E s \in DOMAIN connectedSockets :
          /\ connectedSockets[s].currentChatId = last.task.id
          /\ Owner(s) # Owner(last.task.sock)

\* The last step ran the presence broadcaster: the continuation of a connect,
\* a disconnect or a status change after its status write.
Broadcast == last.op = "resume" /\ last.task.kind \in {"connect", "disconnect", "status"}

\* The identities that are members of a chat that identity u is a member of.
SharingWith(u) ==
    UNION {activeChats[c].members : c \in {x \in DOMAIN activeChats :
                                              u \in activeChats[x].members}} \ {u}

\* C12: a presence broadcast for identity u reaches every live connection of
\* exactly the identities in the union of the member sets that hold u, without
\* u; each of them once, and no connection of u.
C12_BroadcastReachesSharersOnce ==
    Broadcast
        => LET u == Owner(last.task.sock)
               sent == {e \in emits : e.ev = "presence update"}
           IN  /\ {e.to : e \in sent}
                      = {s \in Sockets : sockState[s] = "live" /\ Owner(s) \in SharingWith(u)}
               /\ \A e \in sent : e.copies = 1 /\ e.user = u /\ Owner(e.to) # u
               /\ \A e1 \in sent, e2 \in sent : e1.to = e2.to => e1 = e2

\* A status change has just been broadcast to a connection that shares the
\* default room and a direct chat with the identity, while the identity has
\* two connections.
C12_Witness ==
    /\ Resumed("status", "update")
    /\ Cardinality(SocketsOf(Mem, Owner(last.task.sock))) = 2
    /\ Cardinality({c \in DOMAIN activeChats :
                       {"u1", "u2"} \subseteq activeChats[c].members}) = 2
    /\ \E e \in emits : e.ev = "presence update" /\ e.to = "s3"

\* The live connections that record chat c as their attachment.
LiveAttached(c) == {s \in AttachedTo(c) : sockState[s] = "live"}

C13_Step ==
    /\ \* the save stores the message, once
       Resuming("msg", "save")
           => /\ Len(dbMessages') = Len(dbMessages) + 1
              /\ dbMessages'[Len(dbMessages')].m = last'.task.m
              /\ \A i \in 1..Len(dbMessages) : dbMessages[i] = dbMessages'[i]
                                                /\ dbMessages[i].m # last'.task.m
    /\ \* nothing else stores a message
       ~Resuming("msg", "save") => dbMessages' = dbMessages
    /\ \* the update sets lastActivity to the createdAt of the stored message
       Resuming("msg", "touch")
           => \E r \in FindById(dbRooms', last'.task.chatDbId) :
                 \E i \in 1..Len(dbMessages) :
                    /\ dbMessages[i].m = last'.task.m
                    /\ r.lastActivity = dbMessages[i].createdAt
    /\ \* the broadcast reaches every connection attached to the chat, once
       Resuming("msg", "populate")
           => LET sent == {e \in emits' : e.ev = "chat message"}
              IN  /\ LiveAttached(last'.task.chatId) \subseteq {e.to : e \in sent}
                  /\ \A e \in sent : e.m = last'.task.m /\ e.chat.id = last'.task.chatId
                  /\ \A e1 \in sent, e2 \in sent : e1.to = e2.to => e1 = e2

\* C13: an accepted send stores one message, sets the chat's lastActivity to
\* the message's creation time, and delivers one 'chat message' to every
\* connection attached to the chat when it is broadcast, the sender's too.
C13_SendStoresTouchesDelivers == [][C13_Step]_vars

\* A message has just been delivered to its sender and to the connection of
\* another identity, with the chat's lastActivity at its creation time.
C13_Witness ==
    /\ Resumed("msg", "populate")
    /\ {"s1", "s3"} \subseteq Got("chat message")
    /\ \E r \in FindById(dbRooms, last.task.chatDbId) :
          r.lastActivity = last.task.createdAt /\ r.lastActivity > 0

\* The last step sent the summaries of a message: the continuation that
\* broadcasts a direct message, or a forEach callback resumed after it.
SentSummaries ==
    \/ Resumed("msg", "populate") /\ last.task.chatType = "direct"
    \/ last.op = "resume" /\ last.task.kind = "dmlist"

\* C14: the summary update that follows a direct message names, to the
\* connections of each participant, the other participant of the chat.
C14_SummaryNamesOtherParticipant ==
    SentSummaries
        => \A e \in emits :
              e.ev = "dm list update"
                  => /\ e.otherUser # Owner(e.to)
                     /\ \E r \in DirectDoc(e.dmRoomId) :
                           Range(r.participants) = {Owner(e.to), e.otherUser}

\* The live connections of identity u.
LiveOf(u) == {s \in Sockets : sockState[s] = "live" /\ Owner(s) = u}

\* The summary updates the last step delivered with this unread flag.
Summaries(flag) == {e.to : e \in {x \in emits : x.ev = "dm list update" /\ x.hasUnread = flag}}

Failed(kind) == last.op = "failure" /\ last.task.kind = kind

\* C16: when a persistence call of a join or of a send fails, the requester is
\* answered with an error, and the connection is attached to the chat it was
\* attached to when the request arrived, with its identity in that chat's
\* member set.
C16_FailureLeavesAttachment ==
    /\ Failed("join") /\ sockState[last.task.sock] = "live"
           => /\ \E e \in emits : e.to = last.task.sock /\ e.ev = "error message"
              /\ AttachmentOf(connectedSockets, last.task.sock).id = last.task.was.id
              /\ AttachmentOf(connectedSockets, last.task.sock).type = last.task.was.type
              /\ last.task.was.id # NULL
                     => Owner(last.task.sock) \in MembersOf(activeChats, last.task.was.id)
    /\ Failed("msg") /\ sockState[last.task.sock] = "live"
           => /\ \E e \in emits : e.to = last.task.sock /\ e.ev = "error message"
              /\ AttachmentOf(connectedSockets, last.task.sock).id # NULL
                     => Owner(last.task.sock)
                            \in MembersOf(activeChats,
                                          AttachmentOf(connectedSockets, last.task.sock).id)

\* Socket s is in no identity's socket set, has no session record and is
\* subscribed to nothing.
Unregistered(us, cs, sb, s) ==
    /\ s \notin DOMAIN cs
    /\ \A u \in DOMAIN us : s \notin us[u]
    /\ sb[s] = {}

C17_Step ==
    /\ \* the disconnect takes the socket out of the registry and out of its chat
       last'.op = "disconnect"
           => /\ Unregistered(userSockets', connectedSockets', subs', last'.sock)
              /\ AttachmentOf(connectedSockets, last'.sock).id # NULL
                     => Owner(last'.sock)
                            \notin MembersOf(activeChats',
                                             AttachmentOf(connectedSockets, last'.sock).id)
    /\ \* a failed offline write reaches no connection and undoes nothing
       last'.op = "failure" /\ last'.task.kind = "disconnect"
           => /\ emits' = {}
              /\ Unregistered(userSockets', connectedSockets', subs', last'.task.sock)
              /\ UNCHANGED <<userSockets, connectedSockets, activeChats, subs>>

\* C17: a disconnect removes the connection from the registry and detaches it
\* from its chat whatever state it was in; a failure of the offline write
\* leaves that clean-up in place and is reported to no connection.
C17_DisconnectAlwaysCleansUp == [][C17_Step]_vars

\* The offline write of a connection that was attached to a shared chat has
\* just failed.
C17_Witness ==
    /\ Failed("disconnect")
    /\ last.task.shared # {}
    /\ Unregistered(userSockets, connectedSockets, subs, last.task.sock)


\* The connection whose request, or whose suspended handler, the last step ran.
Requester ==
    IF last.op \in {"resume", "failure"} THEN {last.task.sock}
    ELSE IF last.op = "start" THEN {}
    ELSE {last.sock}

\* C18: when a join, initiate dm, chat message or set status request is
\* refused, the 'error message' event goes to the connection that made the
\* request and to no other connection.
C18_ErrorsGoToTheRequester == Got("error message") \subseteq Requester

\* A join of a room with a malformed name is refused while the identity's other
\* connection is live, and only the requesting connection gets the error.
C18_Witness ==
    /\ Resumed("join", "findOne")
    /\ Got("error message") = {last.task.sock}
    /\ \E x \in Sockets \ {last.task.sock} :
          sockState[x] = "live" /\ Owner(x) = Owner(last.task.sock)
    /\ \E e \in emits : e.ev = "error message" /\ e.msg = "Invalid room name format."


\* The other live connections of the identity that owns connection s.
OtherLive(s) ==
    {x \in Sockets \ {s} : Owner(x) = Owner(s) /\ sockState[x] = "live"}

\* The presence updates of the broadcaster among the events of the next state.
Broadcasts == {e \in emits' : e.ev = "presence update" /\ e.via = "broadcast"}

C19_Step ==
    /\ \* a connection starts the online write iff it is the identity's first
       last'.op = "connection"
           => /\ ([kind |-> "connect", sock |-> last'.sock, pc |-> "update"] \in tasks'
                     <=> OtherLive(last'.sock) = {})
              /\ OtherLive(last'.sock) # {} => tasks' = tasks
              /\ wrote' = {} /\ Broadcasts = {}
    /\ \* the write that a first connection started stores online and broadcasts it
       Resuming("connect", "update")
           => /\ wrote' = {[user |-> Owner(last'.task.sock), status |-> "online"]}
              /\ dbStatus'[Owner(last'.task.sock)] = "online"
              /\ emits' = broadcastPresenceUpdate(Mem, Owner(last'.task.sock), "online")
    /\ \* a disconnect starts the offline write iff the connection was the last
       last'.op = "disconnect"
           => /\ ((\E t \in tasks' \ tasks : t.kind = "disconnect" /\ t.sock = last'.sock)
                     <=> OtherLive(last'.sock) = {})
              /\ OtherLive(last'.sock) # {}
                    => ~ \E t \in tasks' \ tasks : t.kind \in {"connect", "disconnect"}
              /\ wrote' = {} /\ Broadcasts = {}
    /\ \* the write that a last disconnect started stores offline and broadcasts it
       Resuming("disconnect", "update")
           => /\ wrote' = {[user |-> Owner(last'.task.sock), status |-> "offline"]}
              /\ dbStatus'[Owner(last'.task.sock)] = "offline"
              /\ emits' = broadcastPresenceUpdate(Mem, Owner(last'.task.sock), "offline")
    /\ \* online and offline are written by these two continuations only
       \A w \in wrote' :
           /\ w.status = "online" => Resuming("connect", "update")
           /\ w.status = "offline" => Resuming("disconnect", "update")

\* C19: a connection sets the persisted status to online and broadcasts it iff
\* it is the identity's first live connection, a disconnect sets it to offline
\* and broadcasts it iff the connection was the identity's last, and a
\* connection added to or removed from an identity that keeps another live
\* connection writes no status and broadcasts no presence.
C19_WritesOnFirstAndLastOnly == [][C19_Step]_vars

\* An identity with a live connection gets a second one, and no write starts.
C19_Witness ==
    /\ last.op = "connection"
    /\ OtherLive(last.sock) # {}
    /\ ~ \E t \in tasks : t.kind = "connect" /\ t.sock = last.sock
    /\ wrote = {}


\* The 'presence update' events the last step delivered.
PresenceEvents == {e \in emits : e.ev = "presence update"}

\* The last step ran the continuation that calls broadcastPresenceUpdate: after
\* the online write of a first connection, the offline write of a last
\* disconnect, or the write of a 'set status'.
BroadcasterRan ==
    last.op = "resume" /\ last.task.kind \in {"connect", "disconnect", "status"}

\* C20, as stated: every 'presence update' delivered comes from the presence
\* broadcaster, run for a first connection, a last disconnect or a status
\* change.
C20_OnlyTheBroadcaster == PresenceEvents # {} => BroadcasterRan

\* C20, amended: a 'presence update' comes either from the presence
\* broadcaster, run for a first connection, a last disconnect or a status
\* change, or from the join of a public room, which sends the presence of the
\* joining identity to the other connections subscribed to that room and not
\* to the joining connection.
C20_BroadcasterOrRoomJoin ==
    \A e \in PresenceEvents :
        \/ e.via = "broadcast" /\ BroadcasterRan
        \/ /\ e.via = "join"
           /\ last.op = "resume" /\ last.task.kind = "join" /\ last.task.type = "room"
           /\ last.task.sock \in DOMAIN connectedSockets
           /\ connectedSockets[last.task.sock].currentChatType = "room"
           /\ e.user = Owner(last.task.sock)
           /\ e.to # last.task.sock
           /\ e.to \in InRoom(Mem, connectedSockets[last.task.sock].currentChatId)

\* A connection joins the default room and the connection already attached to
\* it receives the presence of the joining identity.
C20_Witness ==
    /\ last.op = "resume" /\ last.task.kind = "join"
    /\ \E e \in PresenceEvents : e.via = "join" /\ e.to # last.task.sock


\* The two ids denote one identity.
SelfPair(sock, target) == toObjectId(target) = Owner(sock)

C21_Step ==
    (\/ last'.op = "initiate dm" /\ SelfPair(last'.sock, last'.target)
     \/ last'.op = "resume" /\ last'.task.kind = "dm"
           /\ SelfPair(last'.task.sock, last'.task.target))
        => /\ dbRooms' = dbRooms
           /\ activeChats' = activeChats
           /\ connectedSockets' = connectedSockets
           /\ subs' = subs

\* C21: an 'initiate dm' whose target is the requester's own identity creates
\* no conversation, touches no member set and leaves the requesting
\* connection's attachment as it was.
C21_SelfPairChangesNothing == [][C21_Step]_vars


\* The stored direct chats hold their participants in the order of the sort.
StoredPairsSorted ==
    \A r \in dbRooms :
        r.type = "direct" => RankOf(r.participants[1]) <= RankOf(r.participants[2])

\* C22: the resolver stores the pair of two distinct identities in sorted
\* order whichever of them asks, and a first lookup made for the pair in
\* either order while its chat is stored returns that chat with isNew = false.
C22_ResolverIgnoresOrder ==
    /\ StoredPairsSorted
    /\ \A a \in Users, b \in Users :
           a # b /\ Resumed("dm", "findOne") /\ Owner(last.task.sock) = a
               /\ last.task.target = b /\ DirectOf(a, b) # {}
               => /\ DirectOf(a, b) = DirectOf(b, a)
                  /\ \E r \in DirectOf(b, a) :
                        [last.task EXCEPT !.pc = "history", !.room = r._id, !.isNew = FALSE]
                            \in tasks

\* u2 asks for the chat with u1, whose id sorts first, and its first lookup
\* returns the stored chat of the pair.
C22_Witness ==
    /\ Resumed("dm", "findOne")
    /\ Owner(last.task.sock) = "u2" /\ last.task.target = "u1"
    /\ \E r \in DirectOf("u1", "u2") :
          /\ r.participants = <<"u1", "u2">>
          /\ [last.task EXCEPT !.pc = "history", !.room = r._id, !.isNew = FALSE] \in tasks


\* How far a suspended 'initiate dm' handler is: the lookup of the target, the
\* resolver's lookup, its create, its re-query, and the history after it.
PcRank(pc) ==
    CASE pc = "findUser" -> 0
      [] pc = "findOne" -> 1
      [] pc = "save" -> 2
      [] pc = "refind" -> 3
      [] OTHER -> 4

\* The suspended handlers a step of an 'initiate dm' handler leaves in place
\* of the one it ran.
DmSuccessors == {t \in tasks' \ tasks : t.kind = "dm"}

C23_Step ==
    (last'.op = "resume" /\ last'.task.kind = "dm")
        => /\ \* the handler only moves forward: no lookup, create or re-query twice
              \A t \in DmSuccessors :
                  /\ t.sock = last'.task.sock /\ t.target = last'.task.target
                  /\ PcRank(t.pc) > PcRank(last'.task.pc)
           /\ Cardinality(DmSuccessors) <= 1
           /\ last'.task \notin tasks'
           /\ \* the re-query is reached from a create that met a uniqueness conflict
              (\E t \in DmSuccessors : t.pc = "refind")
                  => last'.task.pc = "save" /\ dbRooms' = dbRooms
           /\ \* a re-query that finds nothing ends the call with an error
              (last'.task.pc = "refind"
                 /\ FindDirect(dbRooms, CastPair(SortPair(Owner(last'.task.sock),
                                                          last'.task.target))) = {})
                  => /\ DmSuccessors = {}
                     /\ Got("error message")' = {s \in {last'.task.sock} : sockState[s] = "live"}
                     /\ UNCHANGED <<dbRooms, activeChats, connectedSockets, subs>>

\* C23: a call of the resolver makes at most one lookup, at most one create
\* and, only after a uniqueness conflict, at most one re-query; a re-query that
\* finds nothing fails the call, which does not try again.
C23_ResolverIsBounded == [][C23_Step]_vars

\* A re-query found nothing and the requester was sent the error.
C23_Witness ==
    /\ Resumed("dm", "refind")
    /\ Got("error message") = {last.task.sock}
    /\ ~ \E t \in tasks : t.kind = "dm" /\ t.sock = last.task.sock


\* The last request was the shipped client's join of a stored direct chat of
\* the requester: 'join chat' {type: 'dm', id}.
ClientJoinedDm ==
    /\ last.op = "join chat" /\ last.data.type = "dm"
    /\ \E r \in DirectChatsOf(Owner(last.sock)) : r._id = last.data.id

\* C24: the join of an existing direct chat that the shipped client sends for
\* one of its participants is not refused: the handler goes on to attach the
\* connection and to answer 'joined chat'.
C24_ClientDmJoinAccepted ==
    ClientJoinedDm
        => /\ Got("error message") = {}
           /\ \E t \in tasks : t.kind = "join" /\ t.sock = last.sock /\ t.id = last.data.id


\* The handlers that the step suspended at the await of the message history:
\* those that have just run joinSocketToChat.
JustAttached(kind) ==
    {t \in tasks' \ tasks :
        /\ last'.op = "resume" /\ last'.task.kind = kind /\ last'.task.pc # "history"
        /\ t.kind = kind /\ t.pc = "history" /\ t.sock = last'.task.sock
        /\ t.sock \in DOMAIN connectedSockets'}

C25_Step ==
    /\ \* 'join chat' leaves the chat the connection is in before its first await
       (/\ last'.op = "join chat"
        /\ last'.was.id # NULL
        /\ \E t \in tasks' \ tasks : t.kind = "join" /\ t.sock = last'.sock)
           => /\ last'.was.id \notin subs'[last'.sock]
              /\ Owner(last'.sock) \notin MembersOf(activeChats', last'.was.id)
              /\ AttachmentOf(connectedSockets', last'.sock).id = NULL
    /\ \* and attaches to the new one afterwards
       \A t \in JustAttached("join") :
           /\ AttachmentOf(connectedSockets', t.sock) = [type |-> t.type, id |-> t.chatId]
           /\ t.chatId \in subs'[t.sock]
           /\ t.was.id \notin {NULL, t.chatId} => t.was.id \notin subs'[t.sock]
    /\ \* 'initiate dm' leaves and attaches in one step
       \A t \in JustAttached("dm") :
           LET Y == AttachmentOf(connectedSockets, t.sock).id
           IN  /\ AttachmentOf(connectedSockets', t.sock) = [type |-> "direct", id |-> t.room]
               /\ t.room \in subs'[t.sock]
               /\ Y \notin {NULL, t.room}
                     => /\ Y \notin subs'[t.sock]
                        /\ Owner(t.sock) \notin MembersOf(activeChats', Y)

\* C25: a join by a connection attached to Y runs the leave sequence for Y
\* before it attaches to X: the connection is unsubscribed from Y and its
\* identity taken out of Y's member set, and once the join has attached it the
\* attachment is X and the subscription to Y is still gone.
C25_LeaveBeforeAttach == [][C25_Step]_vars

\* A connection that was attached to the default room has been attached to
\* the room lobby.
C25_Witness ==
    /\ last.op = "resume" /\ last.task.kind = "join" /\ last.task.was.id = "general"
    /\ AttachmentOf(connectedSockets, last.task.sock).id = "lobby"
    /\ "general" \notin subs[last.task.sock]
    /\ "lobby" \in subs[last.task.sock]


\* The 'user list update' events among the events of the next state.
ListEvents == {e \in emits' : e.ev = "user list update"}

C26_Step ==
    /\ \* the join of a public room starts a broadcast of the member set it left
       \A t \in JustAttached("join") :
           t.type = "room"
               => \E b \in tasks' :
                     /\ b.kind = "ulist" /\ b.room = t.chatId
                     /\ b.users = MembersOf(activeChats', t.chatId)
                     /\ Owner(t.sock) \in b.users
    /\ \* which reaches every live connection attached to the room
       Resuming("ulist", "find")
           => /\ {e.to : e \in ListEvents} = LiveAttached(last'.task.room)
              /\ \A e \in ListEvents : e.room = last'.task.room /\ e.users = last'.task.users
    /\ \* and the answer to the joiner lists the joiner
       \A e \in emits' :
           e.ev = "joined chat" /\ e.chat.type = "room" => Owner(e.to) \in e.users

\* C26: when a connection joins a public room, every connection attached to
\* the room, the joiner included, receives a 'user list update' with the
\* member set the join left, and the 'joined chat' sent to the joiner lists
\* the joining identity.
C26_JoinAnnouncesMembers == [][C26_Step]_vars


\* The connections whose handler ran leaveCurrentChat in the step: a 'join
\* chat' past its payload check, a disconnect, an 'initiate dm' that attaches.
Leavers ==
    {s \in Sockets :
        \/ last'.op = "join chat" /\ last'.sock = s
              /\ last'.data.type # "" /\ last'.data.id # ""
        \/ last'.op = "disconnect" /\ last'.sock = s
        \/ \E t \in JustAttached("dm") :
              t.sock = s /\ AttachmentOf(connectedSockets, s).id # t.room}

\* The member-list broadcasts of room X the step started.
ListsStarted(X) == {b \in tasks' \ tasks : b.kind = "ulist" /\ b.room = X}

\* The 'stop typing' events of the next state.
StopTyping == {e \in emits' : e.ev = "stop typing"}

C27_Step ==
    \A s \in Leavers :
        LET X == AttachmentOf(connectedSockets, s).id
            kind == AttachmentOf(connectedSockets, s).type
        IN  IF X = NULL
            THEN \* nothing to leave
                 /\ StopTyping = {}
                 /\ \A c \in DOMAIN activeChats :
                        c \in DOMAIN activeChats' /\ ListsStarted(c) = {}
                           /\ (last'.op # "resume" => activeChats'[c] = activeChats[c])
            ELSE /\ X \notin subs'[s]
                 /\ Owner(s) \notin MembersOf(activeChats', X)
                 /\ IF kind = "room" /\ MembersOf(activeChats', X) # {}
                    THEN \E b \in tasks' :
                            /\ b.kind = "ulist" /\ b.room = X /\ b.sock = s
                            /\ b.users = MembersOf(activeChats', X)
                    ELSE ListsStarted(X) = {}
                 /\ {e.to : e \in StopTyping} =
                        {x \in InRoom(Mem, X) \ {s} : sockState'[x] = "live"}
                 /\ \A e \in StopTyping :
                        e.user = Owner(s) /\ e.chat = [type |-> kind, id |-> X]
                 /\ last'.op # "resume" => AttachmentOf(connectedSockets', s).id = NULL

\* C27: the leave sequence of a connection attached to X, on a switch or a
\* disconnect, ends its subscription to X, takes its identity out of X's
\* member set, starts a member-list broadcast iff X is public and keeps
\* members, sends 'stop typing' for the identity to the connections left in X
\* and clears the attachment; the leave of an unattached connection changes
\* and emits nothing.
C27_LeaveSequence == [][C27_Step]_vars

\* A connection left the default room, which kept a member, and the broadcast
\* of the member list began.
C27_Witness ==
    /\ last.op = "join chat" /\ last.was.id = "general" /\ last.was.type = "room"
    /\ "general" \notin subs[last.sock]
    /\ MembersOf(activeChats, "general") # {}
    /\ \E b \in tasks : b.kind = "ulist" /\ b.room = "general" /\ b.sock = last.sock
                          /\ b.users = MembersOf(activeChats, "general")
    /\ \E e \in emits : e.ev = "stop typing" /\ e.to # last.sock


\* The last step delivered a member list of a room to connections attached to
\* it and left no handler suspended: the list is the last one that each of
\* these connections receives for the membership changes made so far.
LastListDelivered ==
    /\ Resumed("ulist", "find")
    /\ tasks = {}
    /\ Got("user list update") # {}

\* C28: the member lists of one public room are not reordered relative to the
\* membership changes: once every handler has completed, the last 'user list
\* update' that a connection attached to the room received lists the room's
\* current member set.
C28_LastListIsCurrent ==
    LastListDelivered
        => \A e \in emits :
              e.ev = "user list update" => e.users = MembersOf(activeChats, e.room)


\* The 'presence update' events among the events of the next state.
PresenceSent == {e \in emits' : e.ev = "presence update"}

C29_Step ==
    /\ \* the request keeps a status of online, away, dnd and turns any other into online
       (last'.op = "set status" /\ last'.status # "")
           => /\ \E t \in tasks' :
                    /\ t.kind = "status" /\ t.sock = last'.sock
                    /\ t.status \in {"online", "away", "dnd"}
                    /\ t.status = IF last'.status \in {"online", "away", "dnd"}
                                  THEN last'.status ELSE "online"
              /\ UNCHANGED <<dbStatus, snap>> /\ PresenceSent = {}
    /\ \* a write that succeeds stores it, refreshes the snapshot, broadcasts once
       Resuming("status", "update")
           => LET u == Owner(last'.task.sock)
              IN  /\ wrote' = {[user |-> u, status |-> last'.task.status]}
                  /\ dbStatus' = [dbStatus EXCEPT ![u] = last'.task.status]
                  /\ snap' = [snap EXCEPT ![last'.task.sock] = dbStatus'[u]]
                  /\ emits' = PresenceSent
                  /\ {e.to : e \in PresenceSent} =
                         {x \in Sockets : /\ sockState[x] = "live"
                                          /\ x \in DOMAIN connectedSockets
                                          /\ Owner(x) \in usersToNotify(Mem, u)}
                  /\ \A e \in PresenceSent :
                         /\ e.user = u /\ e.status = last'.task.status /\ e.copies = 1
                         /\ \A f \in PresenceSent : f.to = e.to => f = e
    /\ \* a write that fails or finds no document changes nothing and answers with an error
       (last'.op \in {"failure", "not found"} /\ last'.task.kind = "status")
           => /\ UNCHANGED <<dbStatus, snap>>
              /\ wrote' = {} /\ PresenceSent = {}
              /\ {e.to : e \in emits'} = {x \in {last'.task.sock} : sockState[x] = "live"}
              /\ \A e \in emits' : e.ev = "error message"

C30_Step ==
    last'.op \in {"typing", "stop typing"}
        => LET s == last'.sock
               id == last'.id
           IN  /\ UNCHANGED <<userSockets, connectedSockets, activeChats, subs>>
               /\ \A e \in emits' : e.ev # "error message"
               /\ IF id # NULL /\ id = AttachmentOf(connectedSockets, s).id
                  THEN /\ {e.to : e \in emits'}
                              = {x \in Sockets \ {s} : id \in subs[x] /\ sockState[x] = "live"}
                       /\ \A e \in emits' :
                              e.ev = last'.op /\ e.user = Owner(s) /\ e.chat.id = id
                  ELSE emits' = {}

\* C30: a 'typing' or 'stop typing' request leaves the registry, the member
\* sets, the attachments and the subscriptions as they are; it is relayed to
\* the other connections subscribed to the sender's current chat, and never to
\* the sender, when the chat id it names is the sender's current chat, and is
\* dropped without a relay or an error otherwise.
C30_TypingRelay == [][C30_Step]_vars

\* A 'typing' request of a connection attached to and subscribed in the chat
\* it names was relayed to another connection.
C30_Witness ==
    /\ last.op = "typing"
    /\ last.id = AttachmentOf(connectedSockets, last.sock).id
    /\ last.sock \in InRoom(Mem, last.id)
    /\ Got("typing") # {}


\* The position of the first character from k on that is no white space, and
\* of the last one up to k; 0 when there is none.
RECURSIVE FirstInk(_, _)
FirstInk(text, k) ==
    IF k > Len(text) THEN 0
    ELSE IF SubSeq(text, k, k) \notin WhiteSpace THEN k
    ELSE FirstInk(text, k + 1)

RECURSIVE LastInk(_, _)
LastInk(text, k) ==
    IF k < 1 THEN 0
    ELSE IF SubSeq(text, k, k) \notin WhiteSpace THEN k
    ELSE LastInk(text, k - 1)

\* The text between the first and the last character that is no white space.
Core(text) ==
    IF FirstInk(text, 1) = 0 THEN ""
    ELSE SubSeq(text, FirstInk(text, 1), LastInk(text, Len(text)))

\* A text the claim accepts: 1 to MAX_MESSAGE_LENGTH characters from the first
\* to the last that is no white space.
Acceptable(text) == Len(Core(text)) \in 1..MAX_MESSAGE_LENGTH

C31_Step ==
    /\ (/\ last'.op = "chat message"
        /\ connectedSockets[last'.sock].currentChatId # NULL
        /\ last'.chat.type = connectedSockets[last'.sock].currentChatType
        /\ last'.chat.id = connectedSockets[last'.sock].currentChatId)
           => IF Acceptable(last'.text)
              THEN \* accepted: a send of the trimmed text is on its way
                   /\ accepted' = accepted + 1
                   /\ \E t \in tasks' \ tasks :
                          t.kind = "msg" /\ t.m = accepted' /\ t.text = Core(last'.text)
                   /\ emits' = {}
              ELSE \* rejected: nothing stored, nothing sent but the error
                   /\ UNCHANGED <<dbMessages, tasks, accepted, recv>>
                   /\ {e.to : e \in emits'} = {last'.sock}
                   /\ \A e \in emits' : e.ev = "error message"
    /\ \* the text stored is the text the accepted send carried
       Resuming("msg", "save")
           => /\ Len(dbMessages') = Len(dbMessages) + 1
              /\ dbMessages'[Len(dbMessages')].text = last'.task.text
    /\ \* and no stored text is empty, padded or longer than the maximum
       \A i \in DOMAIN dbMessages' :
           LET text == dbMessages'[i].text
           IN  /\ Len(text) \in 1..MAX_MESSAGE_LENGTH
               /\ FirstInk(text, 1) = 1 /\ LastInk(text, Len(text)) = Len(text)

\* C31: a send to the attached chat is accepted exactly when its text, with
\* the white space around it removed, has 1 to MAX_MESSAGE_LENGTH characters;
\* an empty, blank or longer text stores and broadcasts nothing and is
\* answered with an error, and an accepted send stores the trimmed text.
C31_TextLimits == [][C31_Step]_vars

\* A padded text whose trimmed length is the maximum was stored trimmed and
\* delivered to the other connection in the room.
C31_Witness ==
    /\ Resumed("msg", "populate")
    /\ \E i \in DOMAIN dbMessages :
          dbMessages[i].m = last.task.m /\ Len(dbMessages[i].text) = MAX_MESSAGE_LENGTH
    /\ last.task.text = Filled(MAX_MESSAGE_LENGTH)
    /\ "s3" \in Got("chat message")


C32_Step ==
    /\ \* a record stays, with its type, name and stored chat
       \A c \in DOMAIN activeChats :
           /\ c \in DOMAIN activeChats'
           /\ activeChats'[c].type = activeChats[c].type
           /\ activeChats'[c].name = activeChats[c].name
           /\ activeChats'[c].dbId = activeChats[c].dbId
    /\ \* a leave that attaches nothing takes the leaver's identity from the
       \* chat it left and changes no other member set
       \A s \in Sockets :
           (s \in Leavers /\ last'.op \in {"join chat", "disconnect"})
               => /\ DOMAIN activeChats' = DOMAIN activeChats
                  /\ \A c \in DOMAIN activeChats :
                         activeChats'[c].members =
                             IF c = AttachmentOf(connectedSockets, s).id
                             THEN activeChats[c].members \ {Owner(s)}
                             ELSE activeChats[c].members

\* C32: a record of activeChats stays in every later state with its type,
\* name and stored chat id; a leave, the last member's included, takes only the
\* leaving identity out of the member set of the chat left.
C32_RecordsStay == [][C32_Step]_vars

\* The last member has left a room that a join had put into memory: its
\* record is there with no member.
C32_Witness ==
    /\ last.op = "join chat"
    /\ last.was.id = "lobby"
    /\ "lobby" \in DOMAIN activeChats
    /\ activeChats["lobby"].members = {}


\* The stored messages of the chat a 'joined chat' event names.
StoredOf(e) ==
    LET dbId == activeChats'[e.chat.id].dbId
    IN  {dbMessages'[i] : i \in {j \in DOMAIN dbMessages' : dbMessages'[j].chat = dbId}}

\* h is the history the claim describes for the messages stored of a chat:
\* as many as there are up to the limit, each of them a stored message of the
\* chat, in ascending order of creation, and none left out that is newer than
\* one that is in.
IsRecentHistory(h, stored) ==
    /\ Len(h) = IF Cardinality(stored) < MESSAGE_HISTORY_LIMIT
                THEN Cardinality(stored) ELSE MESSAGE_HISTORY_LIMIT
    /\ \A i \in 1..Len(h) : \E x \in stored : historyEntry(x) = h[i]
    /\ \A i \in 1..Len(h) : i < Len(h) => h[i].timestamp < h[i + 1].timestamp
    /\ \A x \in stored :
           (\A i \in 1..Len(h) : h[i].timestamp # x.createdAt)
               => (Len(h) = 0 \/ x.createdAt < h[1].timestamp)

C33_Step ==
    \A e \in emits' : e.ev = "joined chat" => IsRecentHistory(e.messages, StoredOf(e))

\* C33: the history in a 'joined chat' holds the min(MESSAGE_HISTORY_LIMIT,
\* total) most recently created stored messages of the chat joined and no
\* other message, oldest first.
C33_HistoryIsMostRecent == [][C33_Step]_vars


\* C34: a connection is subscribed to at most one chat, the one recorded as
\* its current chat, and its identity is a member of no other chat, whatever
\* the order in which its joins and 'initiate dm' requests are handled.
C34_OneChatPerConnection ==
    \A s \in DOMAIN connectedSockets :
        LET X == connectedSockets[s].currentChatId
        IN  /\ Cardinality(subs[s]) <= 1
            /\ subs[s] \subseteq {X}
            /\ SocketsOf(Mem, Owner(s)) = {s}
                   => \A c \in DOMAIN activeChats : Owner(s) \in activeChats[c].members => c = X


\* C35: when no handler is suspended, the stored status of an identity is
\* offline exactly when the identity has no live connection, also after a
\* disconnect of its last connection that a new connection follows before the
\* offline write has completed.
C35_OfflineIffNoConnection ==
    tasks = {}
        => \A u \in Users :
              dbStatus[u] = "offline" <=> ~ \E s \in Sockets : Owner(s) = u /\ sockState[s] = "live"


C36_Step ==
    (Resuming("join", "save") /\ sockState[last'.task.sock] = "live")
        => /\ Cardinality(FindPublic(dbRooms', last'.task.id)) = 1
           /\ \A e \in emits' : e.ev # "error message"
           /\ connectedSockets'[last'.task.sock].currentChatId = last'.task.id

\* C36: a join of a well-formed room name that the lookup did not find ends,
\* after its save, with one stored room of that name and the connection
\* attached to it and with no error, also when another connection's join of
\* the same name has stored the room in between.
C36_ConcurrentCreation == [][C36_Step]_vars


\* C37: when no handler is suspended, a connection that has disconnected is
\* not in connectedSockets, is subscribed to no chat, and its identity, which
\* has no other connection, is in no member set, also when a join or an
\* 'initiate dm' of the connection was awaiting the store at the disconnect.
C37_GoneLeavesNothing ==
    (tasks = {} /\ sockState["s1"] = "closed")
        => /\ "s1" \notin DOMAIN connectedSockets
           /\ subs["s1"] = {}
           /\ \A c \in DOMAIN activeChats : Owner("s1") \notin activeChats[c].members


C38_Step ==
    (last'.op = "failure" /\ last'.task.kind = "msg")
        => /\ \A i \in DOMAIN dbMessages' : dbMessages'[i].m # last'.task.m
           /\ \A s \in Sockets : \A i \in DOMAIN recv'[s] : recv'[s][i] # last'.task.m

\* C38: a send that is answered with 'Could not send your message.' leaves no
\* message of the request in the store and has delivered none: a message is
\* stored exactly when it is broadcast.
C38_SendAllOrNothing == [][C38_Step]_vars


C39_Step ==
    \A e \in emits' :
        (e.ev = "presence update" /\ e.via = "join") => e.status # "offline"

\* C39: the 'presence update' that joinSocketToChat sends to the other
\* connections of a public room when a live connection joins it does not
\* carry the status offline, also on the identity's first connection, whose
\* socket.user was read at the handshake.
C39_JoinPresenceNotOffline == [][C39_Step]_vars


\* C40: the connections that have an entry in connectedSockets are those in
\* the sets of userSockets, each in the set of the identity its entry names
\* and in no other, and no identity of userSockets has an empty set.
C40_RegistryMapsAgree ==
    /\ DOMAIN connectedSockets = UNION {userSockets[u] : u \in DOMAIN userSockets}
    /\ \A s \in DOMAIN connectedSockets : \A u \in DOMAIN userSockets :
           s \in userSockets[u] <=> u = connectedSockets[s].userId
    /\ \A u \in DOMAIN userSockets : userSockets[u] # {}

\* The last connection of one identity has disconnected while another
\* identity keeps two connections.
C40_Witness ==
    /\ last.op = "disconnect"
    /\ Owner(last.sock) \notin DOMAIN userSockets
    /\ \E u \in DOMAIN userSockets : Cardinality(userSockets[u]) = 2

================================================================
